---- MODULE Spec2Model ----
(***************************************************************************)
(* A model of the verification-condition builder (veri.rs), the solver     *)
(* adapter's two checks (solver.rs) and the runner's per-instantiation     *)
(* flow (runner.rs) of the ISLE verifier.                                  *)
(*                                                                         *)
(* Expression ids are 0-based as in the source: exprs[id + 1] is the       *)
(* expression with ExprId(id).  Result<T> is modelled by the builder's     *)
(* `err` field: "" is Ok, anything else is the Err (or panic) that makes   *)
(* from_expansion return no Conditions.  Source positions (position_stack, *)
(* Conditions.pos) only decorate diagnostics and are not represented.      *)
(***************************************************************************)
EXTENDS Integers, Sequences, FiniteSets, TLC

(***************************************************************************)
(* Bounds of the model.                                                    *)
(***************************************************************************)
\* Longest requires / matches / provides clause list of a term spec.
MaxClauses == 2
\* Int-typed variables range over -1 .. MaxInt in solver models.
MaxInt == 1

(***************************************************************************)
(* Const and Expr (veri.rs Expr, types.rs Const).                          *)
(***************************************************************************)
NoConst == <<"", 0>>
ConstBool(v) == <<"Bool", IF v THEN 1 ELSE 0>>
ConstInt(n) == <<"Int", n>>

ExprConst(c) == [op |-> "Const", args |-> <<>>, c |-> c]
ExprVariable(v) == [op |-> "Variable", args |-> <<>>, c |-> <<"Var", v>>]
ExprOp1(op, x) == [op |-> op, args |-> <<x>>, c |-> NoConst]
ExprOp2(op, x, y) == [op |-> op, args |-> <<x, y>>, c |-> NoConst]

is_variable(e) == e.op = "Variable"

\* A purity test that takes every expression for pure.
all_pure(e) == e.op = e.op

pure(e) == e.op # "BVConvTo"

sources(e) == e.args

(***************************************************************************)
(* Symbolic values.                                                        *)
(***************************************************************************)
Scalar(x) == [k |-> "Scalar", x |-> x]
Struct(fields) == [k |-> "Struct", fields |-> fields]
Enum(ty, discriminant, variants) ==
    [k |-> "Enum", ty |-> ty, discriminant |-> discriminant, variants |-> variants]
Option(some, inner) == [k |-> "Option", some |-> some, inner |-> inner]
Tuple(elems) == [k |-> "Tuple", elems |-> elems]
Macro(params, body) == [k |-> "Macro", params |-> params, body |-> body]

SymbolicField(name, value) == [name |-> name, value |-> value]
SymbolicVariant(name, id, discriminant, value) ==
    [name |-> name, id |-> id, discriminant |-> discriminant, value |-> value]

elements(v) == IF v.k = "Tuple" THEN v.elems ELSE <<v>>

\* Domain::from_return_value: the is-some flag of a partial call (or -1 for a
\* total one) and the value the spec's result name is bound to.
from_return_value(value) ==
    IF value.k = "Option"
    THEN [partial |-> TRUE, p |-> value.some, v |-> value.inner]
    ELSE [partial |-> FALSE, p |-> -1, v |-> value]

(***************************************************************************)
(* Spec expressions (spec::Expr), as far as the builder consumes them.     *)
(***************************************************************************)
SNode(k, name, names, xs, c) ==
    [k |-> k, name |-> name, names |-> names, xs |-> xs, c |-> c]
SVar(n) == SNode("Var", n, <<>>, <<>>, NoConst)
SConst(c) == SNode("Const", "", <<>>, <<>>, c)
SNot(x) == SNode("Not", "", <<>>, <<x>>, NoConst)
SAnd(xs) == SNode("And", "", <<>>, xs, NoConst)
SOr(xs) == SNode("Or", "", <<>>, xs, NoConst)
SImp(x, y) == SNode("Imp", "", <<>>, <<x, y>>, NoConst)
SEq(x, y) == SNode("Eq", "", <<>>, <<x, y>>, NoConst)
SLt(x, y) == SNode("Lt", "", <<>>, <<x, y>>, NoConst)
SGt(x, y) == SNode("Gt", "", <<>>, <<x, y>>, NoConst)
SSub(x, y) == SNode("Sub", "", <<>>, <<x, y>>, NoConst)
SBVConvTo(w, x) == SNode("BVConvTo", "", <<>>, <<w, x>>, NoConst)
SField(name, x) == SNode("Field", name, <<>>, <<x>>, NoConst)
SDiscriminator(variant, x) == SNode("Discriminator", variant, <<>>, <<x>>, NoConst)
\* Constructor::Enum { name, variant, args }
SEnum(name, variant, args) == SNode("Enum", name, <<variant>>, args, NoConst)
\* Constructor::Struct { fields }: field names and their value expressions
SStruct(names, values) == SNode("Struct", "", names, values, NoConst)
\* Expand(ident, args)
SExpand(name, args) == SNode("Expand", name, <<>>, args, NoConst)
\* Let(defs, body): xs holds the definitions followed by the body
SLet(names, defs, body) == SNode("Let", "", names, Append(defs, body), NoConst)
\* Macro(params, body)
SMacro(params, body) == SNode("Macro", "", params, <<body>>, NoConst)

(***************************************************************************)
(* Maps (HashMap) are functions; EmptyMap is the empty one.                *)
(***************************************************************************)
EmptyMap == [x \in {} |-> x]
MapSet(m, key, value) == (key :> value) @@ m

(***************************************************************************)
(* ConditionsBuilder: the builder's fields and its Conditions, in one      *)
(* record.  `glog` is a history of the clause ids each call produced and   *)
(* `blog` a history of add_binding (the value of a binding allocated, the  *)
(* conditions of its kind begun); they are not program state and are only  *)
(* read by the properties below.                                           *)
(***************************************************************************)
NewBuilder ==
    [exprs |-> <<>>, expr_map |-> EmptyMap, variables |-> <<>>,
     assumptions |-> <<>>, assertions |-> <<>>, state |-> EmptyMap,
     state_modification_conds |-> EmptyMap, binding_value |-> EmptyMap,
     calls |-> <<>>, glog |-> <<>>, blog |-> <<>>, err |-> ""]

Ok(b) == b.err = ""
Fail(b, msg) == [b EXCEPT !.err = IF @ = "" THEN msg ELSE @]
ExprAt(b, id) == b.exprs[id + 1]

dedup_expr(b, expr) ==
    IF pure(expr) /\ expr \in DOMAIN b.expr_map
    THEN [b |-> b, id |-> b.expr_map[expr]]
    ELSE LET id == Len(b.exprs)
         IN  [b |-> [b EXCEPT !.exprs = Append(@, expr),
                              !.expr_map = MapSet(@, expr, id)],
              id |-> id]

constant(b, c) == dedup_expr(b, ExprConst(c))
boolean(b, value) == constant(b, ConstBool(value))

alloc_variable(b, ty, name) ==
    LET v == Len(b.variables)
        b1 == [b EXCEPT !.variables = Append(@, [ty |-> ty, name |-> name])]
    IN  dedup_expr(b1, ExprVariable(v))

component_name(prefix, field) == prefix \o "_" \o field

exprs_equal(b, lhs, rhs) == dedup_expr(b, ExprOp2("Eq", lhs, rhs))

\* reduce(|acc, e| dedup_expr(op(acc, e))) over a non-empty list
RECURSIVE reduce_left(_, _, _, _)
reduce_left(b, op, acc, rest) ==
    IF rest = <<>> THEN [b |-> b, id |-> acc]
    ELSE LET r == dedup_expr(b, ExprOp2(op, acc, Head(rest)))
         IN  reduce_left(r.b, op, r.id, Tail(rest))

any(b, exprs) ==
    IF exprs = <<>> THEN boolean(b, FALSE)
    ELSE reduce_left(b, "Or", Head(exprs), Tail(exprs))

\* The disjunction where the conjunction is meant.
all_as_disjunction(b, exprs) == any(b, exprs)

all(b, exprs) ==
    IF exprs = <<>> THEN boolean(b, TRUE)
    ELSE reduce_left(b, "And", Head(exprs), Tail(exprs))

as_scalar(b, v) ==
    IF v.k = "Scalar" THEN [b |-> b, id |-> v.x]
    ELSE [b |-> Fail(b, "expected scalar value"), id |-> 0]

Variables_set(b, vars, name, value) ==
    IF name \in DOMAIN vars
    THEN [b |-> Fail(b, "redefinition of variable"), vars |-> vars]
    ELSE [b |-> b, vars |-> MapSet(vars, name, value)]

(***************************************************************************)
(* Type models (types.rs Compound, Field, Variant, Enum).                  *)
(***************************************************************************)
CPrimitive(ty) == [k |-> "Primitive", ty |-> ty]
CStruct(fields) == [k |-> "Struct", fields |-> fields]
CEnum(id, variants) == [k |-> "Enum", id |-> id, variants |-> variants]
Field(name, ty) == [name |-> name, ty |-> ty]
Variant(name, id, fields) == [name |-> name, id |-> id, fields |-> fields]

\* Program::get_variant_term: the term of a variant of an enum type
get_variant_term(ty, variant_name) == ty \o "." \o variant_name

\* First index of a sequence whose element has the given name, 0 if none
\* (Iterator::find by name).
find_by_name(seq, name) ==
    IF \E i \in 1..Len(seq) : seq[i].name = name
    THEN CHOOSE i \in 1..Len(seq) :
            /\ seq[i].name = name
            /\ \A j \in 1..(i - 1) : seq[j].name # name
    ELSE 0

\* A validation that accepts every list of variants.
SymbolicEnum_unvalidated(variants) == variants = variants

SymbolicEnum_validate(variants) ==
    \A k \in 1..Len(variants) : variants[k].discriminant = k - 1

record_term_instantiation(b, term, args, ret) ==
    [b EXCEPT !.calls = Append(@, [term |-> term, args |-> args, ret |-> ret])]
(***************************************************************************)
(* Sequencing.  Bind names the result of one step for the steps after it;  *)
(* a step returns the builder it leaves behind as field `b`, and the steps *)
(* after a failed one are skipped, as with `?`.                            *)
(***************************************************************************)
Bind(r, F(_)) == F(r)
Bad(b, msg) == [b |-> Fail(b, msg), v |-> Scalar(0)]
BadId(b, msg) == [b |-> Fail(b, msg), id |-> 0]
\* r? for a step that yields a value, an expression id, or nothing
TryV(r, F(_)) == IF Ok(r.b) THEN F(r) ELSE [b |-> r.b, v |-> Scalar(0)]
TryId(r, F(_)) == IF Ok(r.b) THEN F(r) ELSE [b |-> r.b, id |-> 0]
TryB(r, F(_)) == IF Ok(r.b) THEN F(r) ELSE r.b

RECURSIVE record_variants(_, _, _)
record_variants(b, ret, i) ==
    IF i > Len(ret.variants) THEN b
    ELSE LET variant == ret.variants[i]
         IN  IF variant.value.k # "Struct"
             THEN Fail(b, "variant value is not a struct")
             ELSE record_variants(
                      record_term_instantiation(
                          b, get_variant_term(ret.ty, variant.name),
                          [j \in 1..Len(variant.value.fields) |->
                              variant.value.fields[j].value],
                          ret),
                      ret, i + 1)

new_enum(b, ty, discriminant, variants) ==
    IF ~SymbolicEnum_validate(variants)
    THEN Bad(b, "variant has unexpected discriminant")
    ELSE
    Bind(constant(b, ConstInt(0)), LAMBDA zero :
    Bind(constant(zero.b, ConstInt(Len(variants))), LAMBDA num_variants :
    Bind(dedup_expr(num_variants.b, ExprOp2("Lte", zero.id, discriminant)),
         LAMBDA discriminant_positive :
    Bind(dedup_expr(discriminant_positive.b,
                    ExprOp2("Lt", discriminant, num_variants.id)),
         LAMBDA discriminant_less_than_num_variants :
    Bind(dedup_expr(discriminant_less_than_num_variants.b,
                    ExprOp2("And", discriminant_positive.id,
                            discriminant_less_than_num_variants.id)),
         LAMBDA discriminant_in_range :
    [b |-> record_variants(
               [discriminant_in_range.b EXCEPT
                   !.assumptions = Append(@, discriminant_in_range.id)],
               Enum(ty, discriminant, variants), 1),
     v |-> Enum(ty, discriminant, variants)])))))

RECURSIVE alloc_value(_, _, _), alloc_fields(_, _, _, _), alloc_variants(_, _, _, _)
alloc_value(b, ty, name) ==
    CASE ty.k = "Primitive" ->
            Bind(alloc_variable(b, ty.ty, name), LAMBDA r :
                [b |-> r.b, v |-> Scalar(r.id)])
      [] ty.k = "Struct" ->
            Bind(alloc_fields(b, ty.fields, name, <<>>), LAMBDA r :
                [b |-> r.b, v |-> Struct(r.fields)])
      [] ty.k = "Enum" ->
            Bind(alloc_variable(b, "Int", component_name(name, "discriminant")),
                 LAMBDA discriminant :
            Bind(alloc_variants(discriminant.b, ty.variants, name, <<>>),
                 LAMBDA r :
                TryV(r, LAMBDA ok :
                    new_enum(ok.b, ty.id, discriminant.id, ok.variants))))

alloc_fields(b, fields, name, acc) ==
    IF fields = <<>> \/ ~Ok(b) THEN [b |-> b, fields |-> acc]
    ELSE LET f == Head(fields)
         IN  Bind(alloc_value(b, f.ty, component_name(name, f.name)), LAMBDA r :
                 alloc_fields(r.b, Tail(fields), name,
                              Append(acc, SymbolicField(f.name, r.v))))

alloc_variant(b, variant, name) ==
    Bind(alloc_value(b, CStruct(variant.fields),
                     component_name(name, variant.name)),
         LAMBDA r :
             [b |-> r.b,
              v |-> SymbolicVariant(variant.name, variant.id, variant.id, r.v)])

alloc_variants(b, variants, name, acc) ==
    IF variants = <<>> \/ ~Ok(b) THEN [b |-> b, variants |-> acc]
    ELSE Bind(alloc_variant(b, Head(variants), name), LAMBDA r :
             alloc_variants(r.b, Tail(variants), name, Append(acc, r.v)))

alloc_model(b, P, type_id, name) ==
    IF type_id \notin DOMAIN P.type_model
    THEN Bad(b, "unspecified model for type")
    ELSE alloc_value(b, P.type_model[type_id], name)

\* BindingType (trie.rs): Base(type_id), Option(inner), Tuple(inners)
BBase(type_id) == [k |-> "Base", ty |-> type_id]
BOption(inner) == [k |-> "Option", inner |-> inner]
BTuple(inners) == [k |-> "Tuple", inners |-> inners]

ToString1(i) ==
    CASE i = 0 -> "0" [] i = 1 -> "1" [] i = 2 -> "2" [] i = 3 -> "3" [] OTHER -> "n"

RECURSIVE alloc_binding(_, _, _, _), alloc_inners(_, _, _, _, _)
alloc_binding(b, P, binding_type, name) ==
    CASE binding_type.k = "Base" -> alloc_model(b, P, binding_type.ty, name)
      [] binding_type.k = "Option" ->
            Bind(alloc_variable(b, "Bool", component_name(name, "some")),
                 LAMBDA some :
            Bind(alloc_binding(some.b, P, binding_type.inner,
                               component_name(name, "inner")),
                 LAMBDA inner :
                [b |-> inner.b, v |-> Option(some.id, inner.v)]))
      [] binding_type.k = "Tuple" ->
            Bind(alloc_inners(b, P, binding_type.inners, name, <<>>), LAMBDA r :
                [b |-> r.b, v |-> Tuple(r.elems)])

alloc_inners(b, P, inners, name, acc) ==
    IF Len(acc) = Len(inners) \/ ~Ok(b) THEN [b |-> b, elems |-> acc]
    ELSE Bind(alloc_binding(b, P, inners[Len(acc) + 1],
                            component_name(name, ToString1(Len(acc)))),
              LAMBDA r : alloc_inners(r.b, P, inners, name, Append(acc, r.v)))

(***************************************************************************)
(* Equality of symbolic values.                                            *)
(***************************************************************************)
discriminator(b, e, variant) ==
    Bind(constant(b, ConstInt(variant.discriminant)), LAMBDA d :
        exprs_equal(d.b, e.discriminant, d.id))

field_values(fields) == [i \in 1..Len(fields) |-> fields[i].value]

RECURSIVE values_equal(_, _, _), fields_equal(_, _, _, _), variants_equal(_, _, _, _, _)
values_equal(b, a, v) ==
    IF a.k # v.k THEN BadId(b, "equality on different symbolic types")
    ELSE
    CASE a.k = "Scalar" -> exprs_equal(b, a.x, v.x)
      [] a.k = "Struct" ->
            IF \/ Len(a.fields) # Len(v.fields)
               \/ \E i \in 1..Len(a.fields) : a.fields[i].name # v.fields[i].name
            THEN BadId(b, "panic: field mismatch")
            ELSE TryId(fields_equal(b, field_values(a.fields),
                                    field_values(v.fields), <<>>),
                       LAMBDA r : all(r.b, r.ids))
      [] a.k = "Enum" ->
            IF Len(a.variants) # Len(v.variants)
            THEN BadId(b, "panic: variant count mismatch")
            ELSE Bind(exprs_equal(b, a.discriminant, v.discriminant), LAMBDA d :
                     TryId(variants_equal(d.b, a, v, 1, <<>>), LAMBDA r :
                         all(r.b, <<d.id>> \o r.ids)))
      [] a.k = "Tuple" ->
            IF Len(a.elems) # Len(v.elems)
            THEN BadId(b, "panic: tuple length mismatch")
            ELSE TryId(fields_equal(b, a.elems, v.elems, <<>>), LAMBDA r :
                     all(r.b, r.ids))
      [] OTHER -> BadId(b, "panic: todo values equal")

fields_equal(b, us, vs, acc) ==
    IF Len(acc) = Len(us) \/ ~Ok(b) THEN [b |-> b, ids |-> acc]
    ELSE Bind(values_equal(b, us[Len(acc) + 1], vs[Len(acc) + 1]), LAMBDA r :
             IF ~Ok(r.b) THEN [b |-> r.b, ids |-> acc]
             ELSE fields_equal(r.b, us, vs, Append(acc, r.id)))

variants_equal(b, u, v, i, acc) ==
    IF i > Len(u.variants) \/ ~Ok(b) THEN [b |-> b, ids |-> acc]
    ELSE IF u.variants[i].name # v.variants[i].name
    THEN [b |-> Fail(b, "panic: variant name mismatch"), ids |-> acc]
    ELSE Bind(discriminator(b, u, u.variants[i]), LAMBDA ud :
         Bind(values_equal(ud.b, u.variants[i].value, v.variants[i].value),
              LAMBDA eq :
             IF ~Ok(eq.b) THEN [b |-> eq.b, ids |-> acc]
             ELSE Bind(dedup_expr(eq.b, ExprOp2("Imp", ud.id, eq.id)),
                       LAMBDA imp :
                      variants_equal(imp.b, u, v, i + 1, Append(acc, imp.id)))))

(***************************************************************************)
(* Evaluation of spec expressions.                                         *)
(***************************************************************************)
\* A field access that gives back a value that is no struct.
spec_field_coerced(b, name, v) ==
    IF v.k # "Struct" THEN [b |-> b, v |-> v]
    ELSE LET i == find_by_name(v.fields, name)
         IN  IF i = 0 THEN Bad(b, "attempt to access nonexistent struct field")
             ELSE [b |-> b, v |-> v.fields[i].value]

spec_field(b, name, v) ==
    IF v.k # "Struct" THEN Bad(b, "field access from non-struct value")
    ELSE LET i == find_by_name(v.fields, name)
         IN  IF i = 0 THEN Bad(b, "attempt to access nonexistent struct field")
             ELSE [b |-> b, v |-> v.fields[i].value]

spec_discriminator(b, name, v) ==
    IF v.k # "Enum" THEN Bad(b, "discriminator for non-enum value")
    ELSE LET i == find_by_name(v.variants, name)
         IN  IF i = 0 THEN Bad(b, "no variant with name")
             ELSE Bind(discriminator(b, v, v.variants[i]), LAMBDA d :
                      [b |-> d.b, v |-> Scalar(d.id)])

\* self.scalar(expr)
scalar(b, expr) ==
    Bind(dedup_expr(b, expr), LAMBDA r : [b |-> r.b, v |-> Scalar(r.id)])

\* exprs.into_iter().rev().reduce(|acc, e| dedup_expr(op(e, acc)))
RECURSIVE reduce_right(_, _, _, _)
reduce_right(b, op, acc, rest) ==
    IF rest = <<>> THEN [b |-> b, v |-> Scalar(acc)]
    ELSE Bind(dedup_expr(b, ExprOp2(op, rest[Len(rest)], acc)), LAMBDA r :
             reduce_right(r.b, op, r.id, SubSeq(rest, 1, Len(rest) - 1)))

variadic_expr(op, xs) ==
    IF ~Ok(xs.b) THEN Bad(xs.b, "")
    ELSE IF xs.ids = <<>> THEN Bad(xs.b, "empty variadic expression")
    ELSE reduce_right(xs.b, op, xs.ids[Len(xs.ids)],
                      SubSeq(xs.ids, 1, Len(xs.ids) - 1))

\* self.as_scalar(x)? of an evaluated operand
scalar_of(x) ==
    IF ~Ok(x.b) THEN [b |-> x.b, id |-> 0] ELSE as_scalar(x.b, x.v)

RECURSIVE spec_expr(_, _, _, _), spec_scalars(_, _, _, _, _),
          spec_binary(_, _, _, _, _, _), construct_enum(_, _, _, _),
          construct_variants(_, _, _, _, _, _, _),
          construct_fields(_, _, _, _, _, _), spec_expand(_, _, _, _),
          expand_args(_, _, _, _, _, _, _), spec_let(_, _, _, _, _)

spec_expr(b, P, expr, vars) ==
    CASE expr.k = "Var" ->
            IF expr.name \in DOMAIN vars
            THEN [b |-> b, v |-> vars[expr.name]]
            ELSE Bad(b, "undefined variable")
      [] expr.k = "Const" ->
            Bind(constant(b, expr.c), LAMBDA r : [b |-> r.b, v |-> Scalar(r.id)])
      [] expr.k = "Not" ->
            TryV(spec_expr(b, P, expr.xs[1], vars), LAMBDA x :
            TryV(as_scalar(x.b, x.v), LAMBDA s :
                scalar(s.b, ExprOp1("Not", s.id))))
      [] expr.k \in {"And", "Or"} ->
            variadic_expr(expr.k, spec_scalars(b, P, expr.xs, vars, <<>>))
      [] expr.k \in {"Imp", "Lt", "Sub", "BVConvTo"} ->
            spec_binary(b, P, expr.k, expr.xs[1], expr.xs[2], vars)
      [] expr.k = "Gt" ->
            spec_binary(b, P, "Lt", expr.xs[2], expr.xs[1], vars)
      [] expr.k = "Eq" ->
            TryV(spec_expr(b, P, expr.xs[1], vars), LAMBDA x :
            TryV(spec_expr(x.b, P, expr.xs[2], vars), LAMBDA y :
            TryV(values_equal(y.b, x.v, y.v), LAMBDA r :
                [b |-> r.b, v |-> Scalar(r.id)])))
      [] expr.k = "Field" ->
            TryV(spec_expr(b, P, expr.xs[1], vars), LAMBDA x :
                spec_field(x.b, expr.name, x.v))
      [] expr.k = "Discriminator" ->
            TryV(spec_expr(b, P, expr.xs[1], vars), LAMBDA x :
                spec_discriminator(x.b, expr.name, x.v))
      [] expr.k = "Enum" -> construct_enum(b, P, expr, vars)
      [] expr.k = "Struct" ->
            TryV(construct_fields(b, P, expr.names, expr.xs, vars, <<>>),
                 LAMBDA r : [b |-> r.b, v |-> Struct(r.fields)])
      [] expr.k = "Expand" -> spec_expand(b, P, expr, vars)
      [] expr.k = "Let" -> spec_let(b, P, expr, vars, 1)
      [] expr.k = "Macro" -> [b |-> b, v |-> Macro(expr.names, expr.xs[1])]

\* binary_expr!: both operands are evaluated, first then second, before
\* either is required to be a scalar.
spec_binary(b, P, op, first, second, vars) ==
    TryV(spec_expr(b, P, first, vars), LAMBDA x :
    TryV(spec_expr(x.b, P, second, vars), LAMBDA y :
    TryV(as_scalar(y.b, x.v), LAMBDA sx :
    TryV(as_scalar(sx.b, y.v), LAMBDA sy :
        scalar(sy.b, ExprOp2(op, sx.id, sy.id))))))

\* xs.iter().map(|x| as_scalar(spec_expr(x)?)).collect()
spec_scalars(b, P, xs, vars, acc) ==
    IF Len(acc) = Len(xs) \/ ~Ok(b) THEN [b |-> b, ids |-> acc]
    ELSE Bind(scalar_of(spec_expr(b, P, xs[Len(acc) + 1], vars)), LAMBDA s :
             IF ~Ok(s.b) THEN [b |-> s.b, ids |-> acc]
             ELSE spec_scalars(s.b, P, xs, vars, Append(acc, s.id)))

construct_fields(b, P, names, values, vars, acc) ==
    IF Len(acc) = Len(names) \/ Len(acc) = Len(values) \/ ~Ok(b)
    THEN [b |-> b, fields |-> acc]
    ELSE Bind(spec_expr(b, P, values[Len(acc) + 1], vars), LAMBDA r :
             construct_fields(r.b, P, names, values, vars,
                              Append(acc, SymbolicField(names[Len(acc) + 1], r.v))))

construct_enum(b, P, expr, vars) ==
    IF expr.name \notin P.types THEN Bad(b, "unknown enum type")
    ELSE IF expr.name \notin DOMAIN P.type_model
    THEN Bad(b, "unspecified model for type")
    ELSE IF P.type_model[expr.name].k # "Enum"
    THEN Bad(b, "expected to have enum type")
    ELSE
    LET e == P.type_model[expr.name]
        i == find_by_name(e.variants, expr.names[1])
    IN  IF i = 0 THEN Bad(b, "unknown variant")
        ELSE
        Bind(constant(b, ConstInt(e.variants[i].id)), LAMBDA discriminant :
        TryV(construct_variants(discriminant.b, P, e.variants, e.variants[i],
                                expr.xs, vars, <<>>),
             LAMBDA r : new_enum(r.b, expr.name, discriminant.id, r.variants)))

construct_variants(b, P, variants, variant, args, vars, acc) ==
    IF Len(acc) = Len(variants) \/ ~Ok(b) THEN [b |-> b, variants |-> acc]
    ELSE
    LET v == variants[Len(acc) + 1]
    IN  IF v.id # variant.id
        THEN Bind(alloc_variant(b, v, "undef"), LAMBDA r :
                 construct_variants(r.b, P, variants, variant, args, vars,
                                    Append(acc, r.v)))
        ELSE IF Len(args) # Len(v.fields)
        THEN [b |-> Fail(b, "panic: variant argument count"), variants |-> acc]
        ELSE Bind(construct_fields(
                      b, P, [j \in 1..Len(v.fields) |-> v.fields[j].name],
                      args, vars, <<>>),
                  LAMBDA r :
                      construct_variants(
                          r.b, P, variants, variant, args, vars,
                          Append(acc, SymbolicVariant(v.name, v.id, v.id,
                                                      Struct(r.fields)))))

\* An expansion that does not compare the argument count with the macro's
\* parameters and binds as many of them as there are of both.
spec_expand_unchecked(b, P, expr, vars) ==
    LET name == expr.name
        local == name \in DOMAIN vars
    IN  IF local /\ vars[name].k # "Macro" THEN Bad(b, "variable is not a macro")
        ELSE IF ~local /\ name \notin DOMAIN P.macros THEN Bad(b, "unknown macro")
        ELSE
        LET params == IF local THEN vars[name].params ELSE P.macros[name].params
            body == IF local THEN vars[name].body ELSE P.macros[name].body
            n == IF Len(params) < Len(expr.xs) THEN Len(params) ELSE Len(expr.xs)
        IN  expand_args(b, P, SubSeq(params, 1, n), SubSeq(expr.xs, 1, n), body,
                        vars, EmptyMap)

spec_expand(b, P, expr, vars) ==
    LET name == expr.name
        local == name \in DOMAIN vars
    IN  IF local /\ vars[name].k # "Macro" THEN Bad(b, "variable is not a macro")
        ELSE IF ~local /\ name \notin DOMAIN P.macros THEN Bad(b, "unknown macro")
        ELSE
        LET params == IF local THEN vars[name].params ELSE P.macros[name].params
            body == IF local THEN vars[name].body ELSE P.macros[name].body
        IN  IF Len(params) # Len(expr.xs)
            THEN Bad(b, "incorrect number of arguments for macro")
            ELSE expand_args(b, P, params, expr.xs, body, vars, EmptyMap)

expand_args(b, P, params, args, body, vars, macro_vars) ==
    IF params = <<>> THEN spec_expr(b, P, body, macro_vars)
    ELSE TryV(spec_expr(b, P, Head(args), vars), LAMBDA arg :
         TryV(Variables_set(arg.b, macro_vars, Head(params), arg.v), LAMBDA set :
             expand_args(set.b, P, Tail(params), Tail(args), body, vars,
                         set.vars)))

spec_let(b, P, expr, let_vars, i) ==
    IF i > Len(expr.names) THEN spec_expr(b, P, expr.xs[i], let_vars)
    ELSE TryV(spec_expr(b, P, expr.xs[i], let_vars), LAMBDA def :
         TryV(Variables_set(def.b, let_vars, expr.names[i], def.v), LAMBDA set :
             spec_let(set.b, P, expr, set.vars, i + 1)))

(***************************************************************************)
(* Calls.  A term spec is [args, ret, requires, matches, provides,         *)
(* modifies]; a modifies entry is [state, cond] with cond = "" for an      *)
(* unconditional modification.                                             *)
(***************************************************************************)
TermSpec(args, ret, requires, matches, provides, modifies) ==
    [args |-> args, ret |-> ret, requires |-> requires, matches |-> matches,
     provides |-> provides, modifies |-> modifies]
Modifies(state, cond) == [state |-> state, cond |-> cond]

\* state_modification_conds.entry(state).or_default().push(cond)
record_modification(b, state, cond) ==
    [b EXCEPT !.state_modification_conds =
        MapSet(@, state,
               Append(IF state \in DOMAIN @ THEN @[state] ELSE <<>>, cond))]

RECURSIVE modifies_loop(_, _, _)
modifies_loop(b, vars, modifies) ==
    IF modifies = <<>> \/ ~Ok(b) THEN [b |-> b, vars |-> vars]
    ELSE
    LET m == Head(modifies)
    IN  IF m.cond # ""
        THEN Bind(alloc_variable(b, "Bool", m.state \o "_modification_cond"),
                  LAMBDA cond :
             Bind(Variables_set(cond.b, vars, m.cond, Scalar(cond.id)),
                  LAMBDA set :
                 IF ~Ok(set.b) THEN set
                 ELSE modifies_loop(record_modification(set.b, m.state, cond.id),
                                    set.vars, Tail(modifies))))
        ELSE Bind(boolean(b, TRUE), LAMBDA cond :
                 modifies_loop(record_modification(cond.b, m.state, cond.id),
                               vars, Tail(modifies)))

\* for (name, value) in zip(names, values) { vars.set(name, value)?; }
RECURSIVE set_all(_, _, _, _)
set_all(b, vars, names, values) ==
    IF names = <<>> \/ values = <<>> \/ ~Ok(b) THEN [b |-> b, vars |-> vars]
    ELSE Bind(Variables_set(b, vars, Head(names), Head(values)), LAMBDA set :
             set_all(set.b, set.vars, Tail(names), Tail(values)))

\* A routing that ignores the invocation and always routes as a caller does.
route_as_caller(b0, b, term, args, ret, kind, invocation, domain, requires, matches, provides, routed) ==
    record_term_instantiation(
        [b EXCEPT !.assertions = @ \o requires,
                  !.assumptions = @ \o routed,
                  !.glog = Append(@,
                      [term |-> term, kind |-> kind, invocation |-> invocation,
                       partial |-> domain.partial, some |-> domain.p,
                       requires |-> requires, matches |-> matches,
                       provides |-> provides, routed |-> routed,
                       assumptions0 |-> Len(b0.assumptions),
                       assertions0 |-> Len(b0.assertions),
                       assumptions1 |-> Len(b.assumptions) + Len(routed),
                       assertions1 |-> Len(b.assertions) + Len(requires)])],
        term, args, ret)

\* A routing that keeps the provides clauses of a partial call beside the
\* expression that replaces them.
route_with_provides(b0, b, term, args, ret, kind, invocation, domain, requires, matches, provides, routed) ==
    LET kept == IF domain.partial THEN routed \o provides ELSE routed
    IN  record_term_instantiation(
            [(IF invocation = "Caller"
              THEN [b EXCEPT !.assertions = @ \o requires,
                             !.assumptions = @ \o kept]
              ELSE [b EXCEPT !.assumptions = @ \o requires,
                             !.assertions = @ \o kept])
             EXCEPT !.glog = Append(@,
                 [term |-> term, kind |-> kind, invocation |-> invocation,
                  partial |-> domain.partial, some |-> domain.p,
                  requires |-> requires, matches |-> matches,
                  provides |-> provides, routed |-> routed,
                  assumptions0 |-> Len(b0.assumptions),
                  assertions0 |-> Len(b0.assertions),
                  assumptions1 |-> Len(b.assumptions)
                      + Len(IF invocation = "Caller" THEN kept ELSE requires),
                  assertions1 |-> Len(b.assertions)
                      + Len(IF invocation = "Caller" THEN requires ELSE kept)])],
            term, args, ret)

\* The tail of call: route the clauses by invocation and record the callsite.
route(b0, b, term, args, ret, kind, invocation, domain, requires, matches, provides, routed) ==
    LET b1 == IF invocation = "Caller"
              THEN [b EXCEPT !.assertions = @ \o requires,
                             !.assumptions = @ \o routed]
              ELSE [b EXCEPT !.assumptions = @ \o requires,
                             !.assertions = @ \o routed]
        entry == [term |-> term, kind |-> kind, invocation |-> invocation,
                  partial |-> domain.partial, some |-> domain.p,
                  requires |-> requires, matches |-> matches,
                  provides |-> provides, routed |-> routed,
                  assumptions0 |-> Len(b0.assumptions),
                  assertions0 |-> Len(b0.assertions),
                  assumptions1 |-> Len(b1.assumptions),
                  assertions1 |-> Len(b1.assertions)]
    IN  record_term_instantiation([b1 EXCEPT !.glog = Append(@, entry)],
                                  term, args, ret)

\* Roles that follow the term declaration whatever the term kind.
call_roles_as_declared(kind, term_spec, args, ret) ==
    [inputs_names |-> term_spec.args, inputs_values |-> args,
     outputs_names |-> <<term_spec.ret>>, outputs_values |-> <<ret>>]

\* let (inputs, outputs) = match kind { ... }: the arguments and the result
\* as they appear in the term declaration, as inputs and outputs by kind.
call_roles(kind, term_spec, args, ret) ==
    IF kind = "Constructor"
    THEN [inputs_names |-> term_spec.args, inputs_values |-> args,
          outputs_names |-> <<term_spec.ret>>, outputs_values |-> <<ret>>]
    ELSE [inputs_names |-> <<term_spec.ret>>, inputs_values |-> <<ret>>,
          outputs_names |-> term_spec.args, outputs_values |-> args]

call(b, P, term, kind, args, ret, invocation, domain) ==
    IF term \notin DOMAIN P.term_spec THEN Fail(b, "no spec for term")
    ELSE IF Len(P.term_spec[term].args) # Len(args)
    THEN Fail(b, "incorrect number of arguments for term")
    ELSE
    LET term_spec == P.term_spec[term]
        roles == call_roles(kind, term_spec, args, ret)
        inputs_names == roles.inputs_names
        inputs_values == roles.inputs_values
        outputs_names == roles.outputs_names
        outputs_values == roles.outputs_values
    IN
    TryB(modifies_loop(b, b.state, term_spec.modifies), LAMBDA mods :
    TryB(set_all(mods.b, mods.vars, inputs_names, inputs_values), LAMBDA ins :
    TryB(spec_scalars(ins.b, P, term_spec.requires, ins.vars, <<>>),
         LAMBDA requires :
    TryB(spec_scalars(requires.b, P, term_spec.matches, ins.vars, <<>>),
         LAMBDA matches :
    TryB(set_all(matches.b, ins.vars, outputs_names, outputs_values),
         LAMBDA outs :
    TryB(spec_scalars(outs.b, P, term_spec.provides, outs.vars, <<>>),
         LAMBDA provides :
        IF domain.partial
        THEN Bind(all(provides.b, matches.ids), LAMBDA all_matches :
             Bind(exprs_equal(all_matches.b, domain.p, all_matches.id),
                  LAMBDA eq :
             Bind(all([eq.b EXCEPT !.assumptions = Append(@, eq.id)],
                      provides.ids),
                  LAMBDA all_provides :
             Bind(dedup_expr(all_provides.b,
                             ExprOp2("Imp", all_matches.id, all_provides.id)),
                  LAMBDA provide :
                 route(b, provide.b, term, args, ret, kind, invocation, domain,
                       requires.ids, matches.ids, provides.ids,
                       <<provide.id>>)))))
        ELSE IF matches.ids # <<>>
        THEN Fail(provides.b, "spec matches on non-partial function")
        ELSE route(b, provides.b, term, args, ret, kind, invocation, domain,
                   requires.ids, matches.ids, provides.ids, provides.ids)))))))

\* self.binding_value[&id] panics when the binding has no value.
has_value(b, id) == id \in DOMAIN b.binding_value

extractor(b, P, id, term, parameter) ==
    IF ~has_value(b, id) \/ ~has_value(b, parameter)
    THEN Fail(b, "panic: binding has no value")
    ELSE Bind(from_return_value(b.binding_value[id]), LAMBDA d :
             call(b, P, term, "Extractor", elements(d.v),
                  b.binding_value[parameter], "Caller", d))

constructor(b, P, id, term, parameters, invocation) ==
    IF \E i \in 1..Len(parameters) : ~has_value(b, parameters[i])
    THEN Fail(b, "panic: parameter binding should be defined")
    ELSE IF ~has_value(b, id) THEN Fail(b, "panic: binding has no value")
    ELSE Bind(from_return_value(b.binding_value[id]), LAMBDA d :
             call(b, P, term, "Constructor",
                  [i \in 1..Len(parameters) |-> b.binding_value[parameters[i]]],
                  d.v, invocation, d))

(***************************************************************************)
(* Bindings of an expansion.  Binding ids are 0-based: bindings[id + 1]    *)
(* is the binding with BindingId(id), NoBinding where the expansion has    *)
(* None.  The BindingType of a binding (computed by binding_type from the  *)
(* type environment) is given with the binding as `bty`.                   *)
(***************************************************************************)
NoBinding == [k |-> "None"]
Argument(bty) == [k |-> "Argument", bty |-> bty]
ConstIntBinding(val, ty) ==
    [k |-> "ConstInt", bty |-> BBase(ty), val |-> val, ty |-> ty]
ConstructorBinding(term, parameters, bty) ==
    [k |-> "Constructor", bty |-> bty, term |-> term, parameters |-> parameters]
ExtractorBinding(term, parameter, bty) ==
    [k |-> "Extractor", bty |-> bty, term |-> term, parameter |-> parameter]

Binding_sources(binding) ==
    CASE binding.k = "Constructor" -> binding.parameters
      [] binding.k = "Extractor" -> <<binding.parameter>>
      [] OTHER -> <<>>

spec_typed_value(b, val, ty) ==
    CASE ty = "Bool" ->
            IF val \in {0, 1} THEN boolean(b, val = 1)
            ELSE BadId(b, "boolean value must be zero or one")
      [] ty = "Int" -> constant(b, ConstInt(val))
      [] OTHER -> BadId(b, "cannot construct constant of type")

equals_const_int(b, P, id, val, ty) ==
    IF ty \notin DOMAIN P.type_model THEN BadId(b, "no model for type")
    ELSE IF P.type_model[ty].k # "Primitive"
    THEN BadId(b, "constant must have basic type")
    ELSE TryId(spec_typed_value(b, val, P.type_model[ty].ty), LAMBDA value :
             values_equal(value.b, b.binding_value[id], Scalar(value.id)))

push_assumption(r) ==
    IF ~Ok(r.b) THEN r.b ELSE [r.b EXCEPT !.assumptions = Append(@, r.id)]

const_int(b, P, id, val, ty) ==
    push_assumption(equals_const_int(b, P, id, val, ty))

Allocated(id) == [ev |-> "alloc", id |-> id]
Emitting(id) == [ev |-> "emit", id |-> id]

\* The conditions of the kind of the binding
binding_conditions(b, P, id, binding) ==
    CASE binding.k = "ConstInt" -> const_int(b, P, id, binding.val, binding.ty)
      [] binding.k = "Argument" -> b
      [] binding.k = "Extractor" ->
            extractor(b, P, id, binding.term, binding.parameter)
      [] binding.k = "Constructor" ->
            constructor(b, P, id, binding.term, binding.parameters, "Caller")

RECURSIVE add_binding(_, _, _, _), add_sources(_, _, _, _)
\* The conditions of a binding emitted before its sources are added.
add_binding_sources_last(b, P, X, id) ==
    IF has_value(b, id) THEN b
    ELSE
    LET binding == X.bindings[id + 1]
    IN  TryB(alloc_binding(b, P, binding.bty, "b" \o ToString1(id)),
             LAMBDA value :
        TryB([b |-> binding_conditions(
                        [value.b EXCEPT !.binding_value = MapSet(@, id, value.v),
                                        !.blog = @ \o <<Allocated(id), Emitting(id)>>],
                        P, id, binding)],
             LAMBDA own : add_sources(own.b, P, X, Binding_sources(binding))))

add_binding(b, P, X, id) ==
    IF has_value(b, id) THEN b
    ELSE
    LET binding == X.bindings[id + 1]
    IN  TryB(alloc_binding(b, P, binding.bty, "b" \o ToString1(id)),
             LAMBDA value :
        TryB([b |-> add_sources(
                        [value.b EXCEPT !.binding_value = MapSet(@, id, value.v),
                                        !.blog = Append(@, Allocated(id))],
                        P, X, Binding_sources(binding))],
             LAMBDA deps :
            binding_conditions([deps.b EXCEPT !.blog = Append(@, Emitting(id))],
                               P, id, binding)))

add_sources(b, P, X, srcs) ==
    IF srcs = <<>> \/ ~Ok(b) THEN b
    ELSE IF Head(srcs) + 1 \notin 1..Len(X.bindings)
            \/ X.bindings[Head(srcs) + 1].k = "None"
    THEN Fail(b, "panic: source binding should be defined")
    ELSE add_sources(add_binding(b, P, X, Head(srcs)), P, X, Tail(srcs))

(***************************************************************************)
(* State variables, constraints and equalities.                            *)
(***************************************************************************)
State(name, ty, default) == [name |-> name, ty |-> ty, default |-> default]

init_state(b, state) ==
    TryB(alloc_value(b, state.ty, state.name), LAMBDA value :
    TryB(Variables_set(value.b, value.b.state, state.name, value.v), LAMBDA set :
        [set.b EXCEPT !.state = set.vars]))

\* A default that ignores the recorded modification conditions.
unguarded_default(b, name, default) == default

\* The default, guarded by the modification conditions recorded for the
\* state when there are any.
guard_default(b, name, default) ==
    IF name \notin DOMAIN b.state_modification_conds THEN default
    ELSE Bind(any(default.b, b.state_modification_conds[name]), LAMBDA modified :
         Bind(dedup_expr(modified.b, ExprOp1("Not", modified.id)),
              LAMBDA not_modified :
         TryV(as_scalar(not_modified.b, default.v), LAMBDA inner :
             scalar(inner.b, ExprOp2("Imp", not_modified.id, inner.id)))))

state_default(b, P, state) ==
    IF state.name \notin DOMAIN b.state THEN Fail(b, "undefined variable")
    ELSE TryB(spec_expr(b, P, state.default,
                        MapSet(EmptyMap, state.name, b.state[state.name])),
              LAMBDA default :
         TryB(guard_default(default.b, state.name, default), LAMBDA guarded :
             push_assumption(as_scalar(guarded.b, guarded.v))))

\* Constrain::Match(binding_id, Constraint::Some)
ConstrainSome(binding_id) == [k |-> "Some", binding |-> binding_id]

constraint_some(b, binding_id) ==
    IF ~has_value(b, binding_id) THEN BadId(b, "panic: binding has no value")
    ELSE IF b.binding_value[binding_id].k # "Option"
    THEN BadId(b, "panic: target of some constraint should be an option")
    ELSE [b |-> b, id |-> b.binding_value[binding_id].some]

constrain(b, c) == constraint_some(b, c.binding)

bindings_equal(b, x, y) ==
    IF ~has_value(b, x) \/ ~has_value(b, y)
    THEN BadId(b, "panic: binding has no value")
    ELSE values_equal(b, b.binding_value[x], b.binding_value[y])

(***************************************************************************)
(* Validation of the built conditions.                                     *)
(***************************************************************************)
RECURSIVE reach_from(_, _, _)
reach_from(b, stack, reach) ==
    IF stack = <<>> THEN reach
    ELSE LET n == Len(stack)
             x == stack[n]
             rest == SubSeq(stack, 1, n - 1)
         IN  IF x \in reach THEN reach_from(b, rest, reach)
             ELSE reach_from(b, rest \o sources(ExprAt(b, x)), reach \cup {x})

reachable(b) == reach_from(b, b.assumptions \o b.assertions, {})

unreachable(b, reach) ==
    \E x \in 0..(Len(b.exprs) - 1) : ~is_variable(ExprAt(b, x)) /\ x \notin reach

\* A validation that accepts every table.
unvalidated(b) == b

validate(b) ==
    IF unreachable(b, reachable(b)) THEN Fail(b, "expression is unreachable")
    ELSE b

(***************************************************************************)
(* ConditionsBuilder::build, one loop iteration at a time.  A position is  *)
(* a phase of build and the 1-based index of the iteration within it.      *)
(***************************************************************************)
Program(types, type_model, state, term_spec, macros) ==
    [types |-> types, type_model |-> type_model, state |-> state,
     term_spec |-> term_spec, macros |-> macros]

\* `equals` lists the pairs that Expansion::equalities() yields.
Expansion(term, parameters, result, bindings, constraints, equals) ==
    [term |-> term, parameters |-> parameters, result |-> result,
     bindings |-> bindings, constraints |-> constraints, equals |-> equals]

Phases ==
    <<"init_state", "bindings", "callee", "constraints", "equals",
      "state_default", "validate">>

PhaseLen(P, X, phase) ==
    CASE phase = "init_state" -> Len(P.state)
      [] phase = "bindings" -> Len(X.bindings)
      [] phase = "callee" -> 1
      [] phase = "constraints" -> Len(X.constraints)
      [] phase = "equals" -> Len(X.equals)
      [] phase = "state_default" -> Len(P.state)
      [] phase = "validate" -> 1

PhaseIndex(phase) == CHOOSE k \in 1..Len(Phases) : Phases[k] = phase

\* The first iteration at or after phase number k, or "done" after validate.
RECURSIVE FirstFrom(_, _, _)
FirstFrom(P, X, k) ==
    IF k > Len(Phases) THEN [pc |-> "done", i |-> 0]
    ELSE IF PhaseLen(P, X, Phases[k]) > 0 THEN [pc |-> Phases[k], i |-> 1]
    ELSE FirstFrom(P, X, k + 1)

NextPos(P, X, phase, i) ==
    IF i < PhaseLen(P, X, phase) THEN [pc |-> phase, i |-> i + 1]
    ELSE FirstFrom(P, X, PhaseIndex(phase) + 1)

build_step(b, P, X, phase, i) ==
    CASE phase = "init_state" -> init_state(b, P.state[i])
      [] phase = "bindings" ->
            IF X.bindings[i].k = "None" THEN b
            ELSE add_binding(b, P, X, i - 1)
      [] phase = "callee" ->
            constructor(b, P, X.result, X.term, X.parameters, "Callee")
      [] phase = "constraints" -> push_assumption(constrain(b, X.constraints[i]))
      [] phase = "equals" ->
            push_assumption(bindings_equal(b, X.equals[i][1], X.equals[i][2]))
      [] phase = "state_default" -> state_default(b, P, P.state[i])
      [] phase = "validate" -> validate(b)

RECURSIVE build_from(_, _, _, _)
build_from(b, P, X, pos) ==
    IF pos.pc = "done" \/ ~Ok(b) THEN b
    ELSE build_from(build_step(b, P, X, pos.pc, pos.i), P, X,
                    NextPos(P, X, pos.pc, pos.i))

\* Conditions::from_expansion: the builder after build(); its `err` is the
\* Err returned in place of the Conditions when it is not "".
from_expansion(X, P) == build_from(NewBuilder, P, X, FirstFrom(P, X, 1))

(***************************************************************************)
(* Programs and expansions the builder is run on.  Each scenario is a      *)
(* program (type models, state declarations, term specs, macros) and one   *)
(* expansion of its root term.                                             *)
(***************************************************************************)
Scenario(P, X) == [prog |-> P, expansion |-> X]

\* Sequences of at most n clauses taken from distinct positions of a pool.
Injections(k, m) ==
    {f \in [1..k -> 1..m] : \A a, c \in 1..k : a # c => f[a] # f[c]}
ClauseLists(pool, n) ==
    UNION {{[j \in 1..k |-> pool[f[j]]] : f \in Injections(k, Len(pool))} :
           k \in 0..n}

Vx == SVar("x")
Vy == SVar("y")
Vr == SVar("r")
Lit(n) == SConst(ConstInt(n))

BaseModel ==
    ("T" :> CPrimitive("Int")) @@ ("B" :> CPrimitive("Bool"))
    @@ ("S" :> CStruct(<<Field("a", CPrimitive("Int")),
                         Field("b", CPrimitive("Bool"))>>))
BaseTypes == {"T", "B", "S", "U"}
BaseMacros == "dec" :> [params |-> <<"a">>, body |-> SSub(SVar("a"), Lit(1))]

TrivialSpec == TermSpec(<<"x", "y">>, "r", <<>>, <<>>, <<>>, <<>>)

\* root(x, y) whose result is the call f(x, y).
CallExpansion(bty) ==
    Expansion("root", <<0, 1>>, 2,
              <<Argument(BBase("T")), Argument(BBase("B")),
                ConstructorBinding("f", <<0, 1>>, bty)>>,
              <<>>, <<>>)

RequiresPool == <<SGt(Vx, Lit(0)), Vy>>
MatchesPool == <<Vy, SLt(Vx, Lit(1)), SGt(Vx, Lit(0))>>
ProvidesPool == <<SEq(Vr, SSub(Vx, Lit(1))), SLt(Vr, Vx)>>

CallScenario(requires, matches, provides, partial, rootsame) ==
    LET spec_f == TermSpec(<<"x", "y">>, "r", requires, matches, provides, <<>>)
    IN  Scenario(
            Program(BaseTypes, BaseModel, <<>>,
                    ("f" :> spec_f)
                    @@ ("root" :> IF rootsame THEN spec_f ELSE TrivialSpec),
                    BaseMacros),
            CallExpansion(IF partial THEN BOption(BBase("T")) ELSE BBase("T")))

CallScenarios ==
    {CallScenario(rq, m, pv, partial, rootsame) :
        rq \in ClauseLists(RequiresPool, MaxClauses),
        m \in ClauseLists(MatchesPool, MaxClauses),
        pv \in ClauseLists(ProvidesPool, MaxClauses),
        partial \in BOOLEAN, rootsame \in BOOLEAN}

\* State declarations and calls whose spec modifies them.
StateDecls ==
    <<State("flag", CPrimitive("Bool"), SNot(SVar("flag"))),
      State("mode", CPrimitive("Int"), SEq(SVar("mode"), Lit(0)))>>
ModifiesPool ==
    <<Modifies("flag", ""), Modifies("flag", "c"), Modifies("mode", "d"),
      Modifies("ghost", "")>>

StateScenario(modifies, ncalls, nstates) ==
    LET spec_f == TermSpec(<<"x", "y">>, "r", <<>>, <<>>,
                           <<SImp(Vy, SVar("flag"))>>, modifies)
        f == ConstructorBinding("f", <<0, 1>>, BBase("T"))
    IN  Scenario(
            Program(BaseTypes, BaseModel, SubSeq(StateDecls, 1, nstates),
                    ("f" :> spec_f) @@ ("root" :> TrivialSpec), BaseMacros),
            Expansion("root", <<0, 1>>, ncalls + 1,
                      <<Argument(BBase("T")), Argument(BBase("B"))>>
                      \o [j \in 1..ncalls |-> f],
                      <<>>, <<>>))

StateScenarios ==
    {StateScenario(m, ncalls, nstates) :
        m \in ClauseLists(ModifiesPool, MaxClauses),
        ncalls \in 1..2, nstates \in 1..2}

\* Enum type models: N variants named by position, with every assignment
\* of variant ids; only the variant in second place has a field.
VariantNames == <<"A", "B", "C">>
MaxVariants == 2
EnumModel(ids) ==
    CEnum("E", [k \in 1..Len(ids) |->
                   Variant(VariantNames[k], ids[k],
                           IF k = 2 THEN <<Field("v", CPrimitive("Int"))>>
                           ELSE <<>>)])
EnumModels ==
    UNION {{EnumModel(ids) : ids \in [1..n -> 0..n]} : n \in 1..MaxVariants}

Ve == SVar("e")
EnumClauses ==
    {SDiscriminator("A", Ve),
     SNot(SDiscriminator("B", Ve)),
     SEq(Ve, SEnum("E", "A", <<>>)),
     SEq(Ve, SEnum("E", "B", <<Vx>>)),
     SDiscriminator("A", SEnum("E", "A", <<>>)),
     SNot(SDiscriminator("A", SEnum("E", "B", <<Vx>>)))}

\* root(e, x) whose result is the call f(e, x); e has the type argty.
EnumScenario(model, clause, argty) ==
    Scenario(
        Program(BaseTypes \cup {"E"}, ("E" :> model) @@ BaseModel, <<>>,
                ("f" :> TermSpec(<<"e", "x">>, "r", <<>>, <<>>, <<clause>>, <<>>))
                @@ ("root" :> TermSpec(<<"e", "x">>, "r", <<>>, <<>>, <<>>, <<>>)),
                BaseMacros),
        Expansion("root", <<0, 1>>, 2,
                  <<Argument(BBase(argty)), Argument(BBase("T")),
                    ConstructorBinding("f", <<0, 1>>, BBase("B"))>>,
                  <<>>, <<>>))

EnumScenarios ==
    {EnumScenario(model, clause, argty) :
        model \in EnumModels, clause \in EnumClauses, argty \in {"E", "T"}}

\* Spec expressions of every modelled kind, well formed or not, used as the
\* single requires or provides clause of f.
LocalMacro(args) ==
    SLet(<<"m">>, <<SMacro(<<"a">>, SNot(SVar("a")))>>, SExpand("m", args))
ClauseZoo ==
    {SEq(Vr, SExpand("dec", <<Vx>>)),
     SLt(Vr, Vx),
     SLt(SExpand("dec", <<Vx>>), Vx),
     SLt(SExpand("dec", <<Vx, Vx>>), Vx),
     SLt(SExpand("nomacro", <<Vx>>), Vx),
     SVar("z"),
     SField("b", SStruct(<<"a", "b">>, <<Vx, Vy>>)),
     SField("b", SStruct(<<"a", "b">>, <<SSub(Vx, Lit(1)), Vy>>)),
     SField("c", SStruct(<<"a">>, <<Vy>>)),
     SField("a", Vy),
     SDiscriminator("A", Vy),
     SLet(<<"t">>, <<SSub(Vx, Lit(1))>>, SLt(SVar("t"), Vx)),
     SLet(<<"t">>, <<SSub(Vx, Lit(1))>>, Vy),
     SLet(<<"x">>, <<Vy>>, Vy),
     LocalMacro(<<Vy>>),
     LocalMacro(<<>>),
     SExpand("y", <<>>),
     SEq(SBVConvTo(Lit(1), Vx), SBVConvTo(Lit(1), Vx)),
     SEq(SSub(Vx, Lit(1)), SSub(Vx, Lit(1))),
     SAnd(<<>>),
     SAnd(<<Vy, SNot(Vy), Vy>>),
     SOr(<<Vy, SNot(Vy)>>),
     SStruct(<<"a">>, <<Vy>>),
     SGt(SSub(Vx, Lit(1)), SSub(Lit(1), Vx)),
     SImp(Vy, SLt(Lit(0), Vx)),
     SEnum("U", "A", <<>>),
     SEnum("Q", "A", <<>>),
     SEnum("T", "A", <<>>),
     SEq(Vy, SConst(ConstBool(TRUE)))}

ZooScenario(clause, as_requires) ==
    Scenario(
        Program(BaseTypes, BaseModel, <<>>,
                ("f" :> TermSpec(<<"x", "y">>, "r",
                                 IF as_requires THEN <<clause>> ELSE <<>>,
                                 <<>>,
                                 IF as_requires THEN <<>> ELSE <<clause>>,
                                 <<>>))
                @@ ("root" :> TrivialSpec),
                BaseMacros),
        CallExpansion(BBase("T")))

ZooScenarios ==
    {ZooScenario(clause, as_requires) :
        clause \in ClauseZoo, as_requires \in BOOLEAN}

\* Extractor bindings: b1 = g(b0) matching on the argument b0, returning
\* one value, a tuple of two, or (when total) a bare value.
Va == SVar("a")
Vv == SVar("v")
ExtractorTypes ==
    {BBase("T"), BOption(BBase("T")),
     BOption(BTuple(<<BBase("T"), BBase("B")>>)), BTuple(<<BBase("T")>>)}

ExtractorScenario(bty, nargs, requires, matches, provides) ==
    Scenario(
        Program(BaseTypes, BaseModel, <<>>,
                ("g" :> TermSpec(SubSeq(<<"a", "c">>, 1, nargs), "v",
                                 requires, matches, provides, <<>>))
                @@ ("root" :> TermSpec(<<"x">>, "r", <<>>, <<>>, <<>>, <<>>)),
                BaseMacros),
        Expansion("root", <<0>>, 2,
                  <<Argument(BBase("T")), ExtractorBinding("g", 0, bty),
                    ConstIntBinding(1, "T")>>,
                  IF bty.k = "Option" THEN <<ConstrainSome(1)>> ELSE <<>>,
                  <<>>))

ExtractorScenarios ==
    {ExtractorScenario(bty, nargs, rq, m, pv) :
        bty \in ExtractorTypes, nargs \in 1..2,
        rq \in {<<>>, <<SGt(Vv, Lit(0))>>, <<SGt(Va, Lit(0))>>},
        m \in {<<>>, <<SLt(Vv, Lit(1))>>, <<SLt(Va, Lit(1))>>},
        pv \in {<<>>, <<SEq(Va, SSub(Vv, Lit(1)))>>}}

\* Expansions that differ in their bindings, constraints and equalities:
\* constants of each modelled type, missing specs, undefined sources.
MiscBindings ==
    {<<Argument(BBase("T")), Argument(BBase("B")),
       ConstructorBinding("f", <<0, 1>>, BBase("T"))>>,
     <<Argument(BBase("T")), Argument(BBase("B")),
       ConstructorBinding("h", <<0, 1>>, BBase("T"))>>,
     <<Argument(BBase("T")), Argument(BBase("B")),
       ConstructorBinding("f", <<0>>, BBase("T"))>>,
     <<Argument(BBase("T")), NoBinding,
       ConstructorBinding("f", <<0, 1>>, BBase("T"))>>,
     <<Argument(BBase("T")), NoBinding,
       ConstructorBinding("f", <<0, 0>>, BBase("T"))>>,
     <<Argument(BBase("U")), Argument(BBase("B")),
       ConstructorBinding("f", <<0, 1>>, BBase("T"))>>,
     <<Argument(BBase("S")), Argument(BBase("S")), Argument(BBase("S"))>>,
     <<ConstIntBinding(1, "T"), ConstIntBinding(1, "B"),
       ConstructorBinding("f", <<0, 1>>, BOption(BBase("T")))>>,
     <<ConstIntBinding(0, "T"), ConstIntBinding(2, "B"),
       ConstructorBinding("f", <<0, 1>>, BBase("T"))>>,
     <<ConstIntBinding(1, "S"), Argument(BBase("B")),
       ConstructorBinding("f", <<0, 1>>, BBase("T"))>>,
     <<ConstIntBinding(1, "U"), Argument(BBase("B")),
       ConstructorBinding("f", <<0, 1>>, BBase("T"))>>}

MiscScenario(bindings, root, constraints, equals) ==
    Scenario(
        Program(BaseTypes, BaseModel, <<>>,
                ("f" :> TermSpec(<<"x", "y">>, "r", <<Vy>>, <<>>,
                                 <<SLt(Vr, Vx)>>, <<>>))
                @@ ("root" :> TrivialSpec),
                BaseMacros),
        Expansion(root, <<0, 1>>, 2, bindings, constraints, equals))

\* Binding tables in every index order: x = f(y, q), y = f(p, q) and the
\* arguments p and q, the binding j at the index at[j].
OrderTable(at) ==
    LET logical ==
            <<ConstructorBinding("f", <<at[2] - 1, at[4] - 1>>, BBase("T")),
              ConstructorBinding("f", <<at[3] - 1, at[4] - 1>>, BBase("T")),
              Argument(BBase("T")), Argument(BBase("B"))>>
    IN  [i \in 1..4 |-> logical[CHOOSE j \in 1..4 : at[j] = i]]

OrderScenario(at) ==
    Scenario(
        Program(BaseTypes, BaseModel, <<>>,
                ("f" :> TermSpec(<<"x", "y">>, "r", <<Vy>>, <<>>,
                                 <<SLt(Vr, Vx)>>, <<>>))
                @@ ("root" :> TrivialSpec),
                BaseMacros),
        Expansion("root", <<at[3] - 1, at[4] - 1>>, at[1] - 1, OrderTable(at),
                  <<>>, <<>>))

OrderScenarios == {OrderScenario(at) : at \in Injections(4, 4)}

MiscScenarios ==
    {MiscScenario(bs, root, cs, es) :
        bs \in MiscBindings, root \in {"root", "lost"},
        cs \in {<<>>, <<ConstrainSome(2)>>},
        es \in {<<>>, <<<<0, 2>>, <<1, 1>>>>}}

Scenarios ==
    CallScenarios \cup StateScenarios \cup EnumScenarios \cup ZooScenarios
    \cup ExtractorScenarios \cup MiscScenarios \cup OrderScenarios

(***************************************************************************)
(* Models of the conditions.  A valuation gives every variable a value of  *)
(* its type, Bool as 0 / 1 and Int from a small range; Val is the value of *)
(* an expression under it.  BVConvTo is not interpreted: the properties    *)
(* that evaluate expressions are stated for tables without it.             *)
(***************************************************************************)
IntValues == (0 - 1)..(MaxInt + 1)
TypeValues(ty) == IF ty = "Bool" THEN {0, 1} ELSE IntValues

RECURSIVE Valuations(_, _)
Valuations(variables, n) ==
    IF n = 0 THEN {<<>>}
    ELSE {Append(rho, v) : rho \in Valuations(variables, n - 1),
                           v \in TypeValues(variables[n].ty)}

Truth(p) == IF p THEN 1 ELSE 0

RECURSIVE Val(_, _, _)
Val(b, rho, id) ==
    LET e == ExprAt(b, id)
    IN  CASE e.op = "Const" -> e.c[2]
          [] e.op = "Variable" -> rho[e.c[2] + 1]
          [] e.op = "Not" -> 1 - Val(b, rho, e.args[1])
          [] e.op = "And" ->
                Truth(Val(b, rho, e.args[1]) = 1 /\ Val(b, rho, e.args[2]) = 1)
          [] e.op = "Or" ->
                Truth(Val(b, rho, e.args[1]) = 1 \/ Val(b, rho, e.args[2]) = 1)
          [] e.op = "Imp" ->
                Truth(Val(b, rho, e.args[1]) = 1 => Val(b, rho, e.args[2]) = 1)
          [] e.op = "Eq" ->
                Truth(Val(b, rho, e.args[1]) = Val(b, rho, e.args[2]))
          [] e.op = "Lt" ->
                Truth(Val(b, rho, e.args[1]) < Val(b, rho, e.args[2]))
          [] e.op = "Lte" ->
                Truth(Val(b, rho, e.args[1]) <= Val(b, rho, e.args[2]))
          [] e.op = "Sub" -> Val(b, rho, e.args[1]) - Val(b, rho, e.args[2])
          [] OTHER -> 0

Holds(b, rho, id) == Val(b, rho, id) = 1
Evaluable(b) == \A i \in 1..Len(b.exprs) : b.exprs[i].op # "BVConvTo"

\* The valuations under which every assumption holds
Models(b) ==
    {rho \in Valuations(b.variables, Len(b.variables)) :
        \A i \in 1..Len(b.assumptions) : Holds(b, rho, b.assumptions[i])}

(***************************************************************************)
(* The solver adapter (solver.rs).  The SMT solver is a process outside    *)
(* the repository: it keeps a stack of assertion frames, answers a check   *)
(* with sat, unsat or unknown, and while it is in the sat state prints the *)
(* values of a model of its assertions as s-expressions.  Its commands are *)
(* taken to be delivered (no I/O failure).  Only the Bool and Int sorts    *)
(* are represented.                                                        *)
(***************************************************************************)
RECURSIVE Pow2(_)
Pow2(n) == IF n = 0 THEN 1 ELSE 2 * Pow2(n - 1)

\* The digits of n in the given radix, most significant first
RECURSIVE Digits(_, _)
Digits(n, radix) ==
    IF n < radix THEN <<n>> ELSE Append(Digits(n \div radix, radix), n % radix)

\* from_str_radix on a non-empty string of digits
RECURSIVE from_str_radix(_, _)
from_str_radix(digits, radix) ==
    IF Len(digits) = 1 THEN digits[1]
    ELSE from_str_radix(SubSeq(digits, 1, Len(digits) - 1), radix) * radix
         + digits[Len(digits)]

\* SExprData: an atom that is a symbol, an atom that is the decimal literal
\* of n >= 0, an atom that is a sign and the decimal literal of n, an atom
\* that is #x or #b and digits of that radix, or a list
Atom(sym) == [k |-> "Atom", sym |-> sym, num |-> 0 - 1, items |-> <<>>]
Numeral(n) == [k |-> "Atom", sym |-> "", num |-> n, items |-> <<>>]
Signed(n) == [k |-> "Atom", sym |-> "-", num |-> n, items |-> <<>>]
Literal(prefix, digits) ==
    [k |-> "Atom", sym |-> prefix, num |-> 0 - 1, items |-> <<>>,
     digits |-> digits, f |-> "lit", args |-> <<>>]
ConstBitVector(w, v) == <<"BitVector", w, v>>
SList(items) == [k |-> "List", sym |-> "", num |-> 0 - 1, items |-> items]

\* The sort an expression is declared with
ExprType(b, id) ==
    LET e == ExprAt(b, id)
    IN  CASE e.op = "Const" -> e.c[1]
          [] e.op = "Variable" -> b.variables[e.c[2] + 1].ty
          [] e.op = "Sub" -> "Int"
          [] OTHER -> "Bool"

\* How an SMT-LIB solver prints a value: true / false, a numeral, and
\* (- n) for a negative integer.
print_value(ty, v) ==
    IF ty = "Bool" THEN Atom(IF v = 1 THEN "true" ELSE "false")
    ELSE IF v >= 0 THEN Numeral(v)
    ELSE SList(<<Atom("-"), Numeral(0 - v)>>)

Decoded(c) == [ok |-> TRUE, c |-> c]
Undecoded == [ok |-> FALSE, c |-> NoConst]

\* from_str_radix fails on no digits; the values here are below 2^128.
const_from_literal(atom) ==
    IF atom.sym = "true" THEN Decoded(ConstBool(TRUE))
    ELSE IF atom.sym = "false" THEN Decoded(ConstBool(FALSE))
    ELSE IF atom.sym = "#x"
    THEN IF atom.digits = <<>> THEN Undecoded
         ELSE Decoded(ConstBitVector(Len(atom.digits) * 4,
                                     from_str_radix(atom.digits, 16)))
    ELSE IF atom.sym = "#b"
    THEN IF atom.digits = <<>> THEN Undecoded
         ELSE Decoded(ConstBitVector(Len(atom.digits),
                                     from_str_radix(atom.digits, 2)))
    ELSE IF atom.sym = "" /\ atom.num >= 0 THEN Decoded(ConstInt(atom.num))
    ELSE Undecoded

\* Only (as @value Unspecified) is accepted.
const_from_qualified_abstract_value(exprs) ==
    IF /\ Len(exprs) = 3
       /\ \A i \in 1..3 : exprs[i].k = "Atom"
       /\ exprs[1].sym = "as"
       /\ exprs[3].sym = "Unspecified"
    THEN Decoded(<<"Unspecified", 0>>)
    ELSE Undecoded

const_from_sexpr(sexpr) ==
    IF sexpr.k = "Atom" THEN const_from_literal(sexpr)
    ELSE const_from_qualified_abstract_value(sexpr.items)

\* Formulas the adapter asserts: the conjunction of atoms, and
\* (not (=> f g)) of two such conjunctions.
and_many(xs) == [k |-> "and", xs |-> xs, ys |-> <<>>]
not_imp(f, g) == [k |-> "not_imp", xs |-> f.xs, ys |-> g.xs]

feasibility_condition(b) == and_many(b.assumptions)
verification_condition(b) == not_imp(and_many(b.assumptions), and_many(b.assertions))

\* Solver::encode: the commands it sends for the expressions of the
\* conditions, in index order: declare_expr for each, and assign_expr,
\* which refers to the expression and to its operands, for each expression
\* that is not a variable.
DeclareExpr(x) == [k |-> "declare", x |-> x, args |-> <<>>]
AssignExpr(x, args) == [k |-> "assert", x |-> x, args |-> args]

\* An encoding that defines each expression before it declares it.
RECURSIVE encode_defining_first(_, _)
encode_defining_first(b, i) ==
    IF i > Len(b.exprs) THEN <<>>
    ELSE (IF b.exprs[i].op = "Variable" THEN <<>>
          ELSE <<AssignExpr(i - 1, b.exprs[i].args)>>)
         \o <<DeclareExpr(i - 1)>>
         \o encode_defining_first(b, i + 1)

RECURSIVE encode_from(_, _)
encode_from(b, i) ==
    IF i > Len(b.exprs) THEN <<>>
    ELSE <<DeclareExpr(i - 1)>>
         \o (IF b.exprs[i].op = "Variable" THEN <<>>
             ELSE <<AssignExpr(i - 1, b.exprs[i].args)>>)
         \o encode_from(b, i + 1)

\* The solver: frames[1] is the base level, `mode` what the last command
\* left it in, `sent` the commands it has received, `asserted` the
\* formulas of its assert commands and `answers` its answers to the checks.
NewSolver ==
    [frames |-> <<(<<>>)>>, mode |-> "assert", declared |-> 0, sent |-> <<>>,
     asserted |-> <<>>, answers |-> <<>>]

smt_push(smt) ==
    [smt EXCEPT !.frames = Append(@, <<>>), !.mode = "assert",
                !.sent = Append(@, "push")]
smt_assert(smt, f) ==
    [smt EXCEPT !.frames[Len(smt.frames)] = Append(@, f), !.mode = "assert",
                !.sent = Append(@, "assert"), !.asserted = Append(@, f)]
smt_check(smt, response) ==
    [smt EXCEPT !.mode = response, !.sent = Append(@, "check"),
                !.answers = Append(@, response)]
smt_pop(smt) ==
    [smt EXCEPT !.frames = SubSeq(@, 1, Len(@) - 1), !.mode = "assert",
                !.sent = Append(@, "pop")]

FormulaHolds(b, rho, f) ==
    IF f.k = "and" THEN \A i \in 1..Len(f.xs) : Holds(b, rho, f.xs[i])
    ELSE /\ \A i \in 1..Len(f.xs) : Holds(b, rho, f.xs[i])
         /\ \E i \in 1..Len(f.ys) : ~Holds(b, rho, f.ys[i])

\* The models of everything asserted, within the bounds on Int values
SolverModels(b, smt) ==
    {rho \in Valuations(b.variables, Len(b.variables)) :
        \A i \in 1..Len(smt.frames) : \A j \in 1..Len(smt.frames[i]) :
            FormulaHolds(b, rho, smt.frames[i][j])}

\* What the solver may answer to a check: unknown at any time, and sat or
\* unsat as there is a model or not
Responses(b, smt) ==
    {"unknown"} \cup (IF SolverModels(b, smt) # {} THEN {"sat"} ELSE {"unsat"})

\* Solver::model: the values of all expressions, decoded; an Err when a
\* value is not decoded or the solver is not in the sat state.
solver_model(b, smt, rho) ==
    LET xs == [i \in 1..Len(b.exprs) |-> i - 1]
        values == [i \in 1..Len(xs) |->
                     print_value(ExprType(b, xs[i]), Val(b, rho, xs[i]))]
        consts == [i \in 1..Len(xs) |-> const_from_sexpr(values[i])]
    IN  IF smt.mode # "sat" \/ \E i \in 1..Len(xs) : ~consts[i].ok
        THEN [ok |-> FALSE, model |-> EmptyMap]
        ELSE [ok |-> TRUE,
              model |-> [x \in 0..(Len(xs) - 1) |-> consts[x + 1].c]]

(***************************************************************************)
(* Values of a model (veri.rs Value) and Conditions::print_model.  An      *)
(* evaluation gives the value, or the error it stops with.                 *)
(***************************************************************************)
Evaluated(v) == [ok |-> TRUE, v |-> v, err |-> ""]
EvalErr(msg) == [ok |-> FALSE, v |-> <<>>, err |-> msg]

\* collect::<Result<_>>(): the values in order, or the first error
collect(results) ==
    IF \E i \in 1..Len(results) : ~results[i].ok
    THEN results[CHOOSE i \in 1..Len(results) :
                    /\ ~results[i].ok
                    /\ \A j \in 1..(i - 1) : results[j].ok]
    ELSE Evaluated([i \in 1..Len(results) |-> results[i].v])

\* Symbolic::eval
RECURSIVE eval(_, _)
eval(value, model) ==
    CASE value.k = "Scalar" ->
            IF value.x \in DOMAIN model
            THEN Evaluated([k |-> "Const", c |-> model[value.x]])
            ELSE EvalErr("undefined expression in model")
      [] value.k = "Struct" ->
            LET fields == collect([i \in 1..Len(value.fields) |->
                                      eval(value.fields[i].value, model)])
            IN  IF ~fields.ok THEN fields
                ELSE Evaluated(
                         [k |-> "Struct",
                          fields |-> [i \in 1..Len(value.fields) |->
                                         [name |-> value.fields[i].name,
                                          value |-> fields.v[i]]]])
      [] value.k = "Enum" ->
            IF value.discriminant \notin DOMAIN model
            THEN EvalErr("undefined discriminant in model")
            ELSE IF model[value.discriminant][1] # "Int"
            THEN EvalErr("model value for discriminant is not an integer")
            ELSE IF model[value.discriminant][2] < 0
            THEN EvalErr("panic: called Result::unwrap() on an Err value")
            ELSE IF \A i \in 1..Len(value.variants) :
                       value.variants[i].discriminant
                           # model[value.discriminant][2]
            THEN EvalErr("no variant with discriminant")
            ELSE LET variant ==
                         value.variants[
                             CHOOSE i \in 1..Len(value.variants) :
                                 /\ value.variants[i].discriminant
                                       = model[value.discriminant][2]
                                 /\ \A j \in 1..(i - 1) :
                                       value.variants[j].discriminant
                                           # model[value.discriminant][2]]
                     inner == eval(variant.value, model)
                 IN  IF ~inner.ok THEN inner
                     ELSE Evaluated([k |-> "Enum", name |-> variant.name,
                                     value |-> inner.v])
      [] value.k = "Option" ->
            IF value.some \notin DOMAIN model
            THEN EvalErr("undefined expression in model")
            ELSE IF model[value.some] = ConstBool(TRUE)
            THEN LET inner == eval(value.inner, model)
                 IN  IF ~inner.ok THEN inner
                     ELSE Evaluated([k |-> "Option", some |-> TRUE,
                                     value |-> inner.v])
            ELSE IF model[value.some] = ConstBool(FALSE)
            THEN Evaluated([k |-> "Option", some |-> FALSE, value |-> <<>>])
            ELSE EvalErr("model value for option some is not boolean")
      [] value.k = "Tuple" ->
            LET elems == collect([i \in 1..Len(value.elems) |->
                                     eval(value.elems[i], model)])
            IN  IF ~elems.ok THEN elems
                ELSE Evaluated([k |-> "Tuple", elems |-> elems.v])
      [] value.k = "Macro" -> EvalErr("cannot evaluate macro")

\* Term::is_enum_variant, for the terms get_variant_term names
is_enum_variant(P, term) ==
    \E ty \in DOMAIN P.type_model :
        /\ P.type_model[ty].k = "Enum"
        /\ \E k \in 1..Len(P.type_model[ty].variants) :
              term = get_variant_term(ty, P.type_model[ty].variants[k].name)

StateLine(name, value) == [k |-> "state", name |-> name, value |-> value]
CallLine(term, args, ret) ==
    [k |-> "call", term |-> term, args |-> args, ret |-> ret]

\* The lines print_model prints for the calls from the i-th on, up to the
\* first that is not evaluated
RECURSIVE print_calls(_, _, _, _)
print_calls(b, P, model, i) ==
    IF i > Len(b.calls) THEN [lines |-> <<>>, err |-> ""]
    ELSE
    LET site == b.calls[i]
    IN  IF is_enum_variant(P, site.term) /\ site.args = <<>>
        THEN print_calls(b, P, model, i + 1)
        ELSE
        LET args == collect([j \in 1..Len(site.args) |->
                                eval(site.args[j], model)])
            ret == eval(site.ret, model)
            rest == print_calls(b, P, model, i + 1)
        IN  IF ~args.ok THEN [lines |-> <<>>, err |-> args.err]
            ELSE IF ~ret.ok THEN [lines |-> <<>>, err |-> ret.err]
            ELSE [lines |-> <<CallLine(site.term, args.v, ret.v)>> \o rest.lines,
                  err |-> rest.err]

\* A print_model that prints the state variables only.
print_model_state_only(b, P, model) ==
    [state |-> {StateLine(name, eval(b.state[name], model).v) :
                    name \in DOMAIN b.state},
     calls |-> <<>>, err |-> ""]

\* Conditions::print_model: a line per state variable (in the map's order,
\* which is left open: the lines are held as a set) and a line per call,
\* with the error of the first value that is not evaluated.
print_model(b, P, model) ==
    IF \E name \in DOMAIN b.state : ~eval(b.state[name], model).ok
    THEN [state |-> {}, calls |-> <<>>,
          err |-> eval(b.state[CHOOSE name \in DOMAIN b.state :
                                  ~eval(b.state[name], model).ok], model).err]
    ELSE [state |-> {StateLine(name, eval(b.state[name], model).v) :
                        name \in DOMAIN b.state},
          calls |-> print_calls(b, P, model, 1).lines,
          err |-> print_calls(b, P, model, 1).err]

NothingPrinted == [state |-> {}, calls |-> <<>>, err |-> ""]

(***************************************************************************)
(* The runner's flow for one type instantiation (runner.rs,                *)
(* verify_expansion_type_instantiation) and the two checks of the adapter. *)
(* `run` holds what the checks returned and the report or error the        *)
(* runner ends with.                                                       *)
(***************************************************************************)
NewRun ==
    [applicability |-> "", verification |-> "", model |-> EmptyMap,
     verdict |-> "", verify_time |-> "", err |-> "", printed |-> NothingPrinted]

\* check_assumptions_feasibility: the verdict for a response
applicability_of(response) ==
    CASE response = "sat" -> "applicable"
      [] response = "unsat" -> "inapplicable"
      [] response = "unknown" -> "unknown"

\* check_verification_condition: the verdict for a response other than sat
verification_of(response) ==
    CASE response = "unsat" -> "success"
      [] response = "unknown" -> "unknown"

\* A runner that goes on to the verification check whatever the
\* applicability is.
verify_regardless(run) == [rpc |-> "v_push", run |-> run]

\* match applicability { .. }
after_applicability(run) ==
    CASE run.applicability = "applicable" -> [rpc |-> "v_push", run |-> run]
      [] run.applicability = "inapplicable" ->
            [rpc |-> "reported",
             run |-> [run EXCEPT !.verdict = "inapplicable",
                                 !.verify_time = "None"]]
      [] run.applicability = "unknown" ->
            [rpc |-> "failed",
             run |-> [run EXCEPT !.err = "could not prove applicability"]]

\* match verification { .. }
after_verification(run) ==
    CASE run.verification = "failure" ->
            [rpc |-> "failed", run |-> [run EXCEPT !.err = "verification failed"]]
      [] run.verification = "success" ->
            [rpc |-> "reported",
             run |-> [run EXCEPT !.verdict = "success", !.verify_time = "Some"]]
      [] run.verification = "unknown" ->
            [rpc |-> "reported",
             run |-> [run EXCEPT !.verdict = "unknown", !.verify_time = "Some"]]

(***************************************************************************)
(* The runner's configuration (runner.rs): expansion predicates, filters   *)
(* and solver rules.  An expansion is seen through what the predicates     *)
(* read: its rules, whether its first rule is named, whether all its terms *)
(* have specs, its tags and its root term.  Evaluating a predicate gives   *)
(* "true", "false" or "err".                                               *)
(***************************************************************************)
FirstRuleNamed == [k |-> "FirstRuleNamed", s |-> "", ps |-> <<>>]
Specified == [k |-> "Specified", s |-> "", ps |-> <<>>]
Tagged(tag) == [k |-> "Tagged", s |-> tag, ps |-> <<>>]
Root(term) == [k |-> "Root", s |-> term, ps |-> <<>>]
ContainsRule(identifier) == [k |-> "ContainsRule", s |-> identifier, ps |-> <<>>]
PNot(p) == [k |-> "Not", s |-> "", ps |-> <<p>>]
PAnd(p, q) == [k |-> "And", s |-> "", ps |-> <<p, q>>]

\* The rule identifiers of the program (Program::get_rule_by_identifier)
KnownRules == {"r1", "r2"}

RECURSIVE eval_predicate(_, _)
eval_predicate(predicate, expansion) ==
    CASE predicate.k = "FirstRuleNamed" ->
            IF expansion.rules = <<>> THEN "err"
            ELSE IF expansion.named THEN "true" ELSE "false"
      [] predicate.k = "Specified" ->
            IF expansion.specified THEN "true" ELSE "false"
      [] predicate.k = "Tagged" ->
            IF predicate.s \in expansion.tags THEN "true" ELSE "false"
      [] predicate.k = "Root" ->
            IF expansion.term = predicate.s THEN "true" ELSE "false"
      [] predicate.k = "ContainsRule" ->
            IF predicate.s \notin KnownRules THEN "err"
            ELSE IF \E i \in 1..Len(expansion.rules) :
                        expansion.rules[i] = predicate.s
                 THEN "true" ELSE "false"
      [] predicate.k = "Not" ->
            LET p == eval_predicate(predicate.ps[1], expansion)
            IN  IF p = "err" THEN "err"
                ELSE IF p = "true" THEN "false" ELSE "true"
      [] predicate.k = "And" ->
            LET first == eval_predicate(predicate.ps[1], expansion)
            IN  IF first = "true" THEN eval_predicate(predicate.ps[2], expansion)
                ELSE first

Filter(include, predicate) == [include |-> include, predicate |-> predicate]

\* Some(filter.include) when the predicate holds, None otherwise
eval_filter(filter, expansion) ==
    LET p == eval_predicate(filter.predicate, expansion)
    IN  CASE p = "err" -> "err"
          [] p = "true" -> IF filter.include THEN "true" ELSE "false"
          [] p = "false" -> "none"

\* A decision by the first filter whose predicate holds.
RECURSIVE should_verify_first_match(_, _)
should_verify_first_match(filters, expansion) ==
    IF filters = <<>> THEN "false"
    ELSE LET v == eval_filter(Head(filters), expansion)
         IN  IF v = "none"
             THEN should_verify_first_match(Tail(filters), expansion)
             ELSE v

\* verdict = eval_filter(filter)?.or(verdict) over the filters in order,
\* then verdict.unwrap_or(false)
RECURSIVE should_verify_from(_, _, _)
should_verify_from(filters, expansion, verdict) ==
    IF filters = <<>> THEN (IF verdict = "none" THEN "false" ELSE verdict)
    ELSE LET v == eval_filter(Head(filters), expansion)
         IN  IF v = "err" THEN "err"
             ELSE should_verify_from(Tail(filters), expansion,
                                     IF v = "none" THEN verdict ELSE v)

should_verify(filters, expansion) == should_verify_from(filters, expansion, "none")

\* The filters main gives the runner: those of --filter, or an include of
\* FirstRuleNamed when there is none, and then an exclude of the tag TODO
\* unless --no-skip-todo is given.
main_filters(opts_filters, skip_todo) ==
    (IF opts_filters # <<>> THEN opts_filters
     ELSE <<Filter(TRUE, FirstRuleNamed)>>)
    \o (IF skip_todo THEN <<Filter(FALSE, Tagged("TODO"))>> ELSE <<>>)

SolverRule(predicate, solver_backend) ==
    [predicate |-> predicate, solver_backend |-> solver_backend]

\* SolverRule::solver_tag_rules: one rule per backend, tag solver_<name>
solver_tag(solver_backend) ==
    SolverRule(Tagged("solver_" \o solver_backend), solver_backend)
solver_tag_rules == <<solver_tag("z3"), solver_tag("cvc5")>>

\* A selection in which the last matching rule wins.
RECURSIVE select_last_match(_, _, _)
select_last_match(solver_rules, default_solver_backend, expansion) ==
    IF solver_rules = <<>> THEN [ok |-> TRUE, backend |-> default_solver_backend]
    ELSE LET p == eval_predicate(Head(solver_rules).predicate, expansion)
         IN  IF p = "err" THEN [ok |-> FALSE, backend |-> ""]
             ELSE select_last_match(
                      Tail(solver_rules),
                      IF p = "true" THEN Head(solver_rules).solver_backend
                      ELSE default_solver_backend,
                      expansion)

RECURSIVE select_solver_backend(_, _, _)
select_solver_backend(solver_rules, default_solver_backend, expansion) ==
    IF solver_rules = <<>> THEN [ok |-> TRUE, backend |-> default_solver_backend]
    ELSE LET p == eval_predicate(Head(solver_rules).predicate, expansion)
         IN  CASE p = "err" -> [ok |-> FALSE, backend |-> ""]
               [] p = "true" ->
                    [ok |-> TRUE, backend |-> Head(solver_rules).solver_backend]
               [] p = "false" ->
                    select_solver_backend(Tail(solver_rules),
                                          default_solver_backend, expansion)

(***************************************************************************)
(* Log paths.  A path is a sequence of components; a component is a name   *)
(* or a number printed by format!("{:0w}", n): its decimal digits, padded  *)
(* with zeros on the left to at least w digits.                            *)
(***************************************************************************)
Name(s) == [s |-> s, d |-> <<>>]
Number(digits) == [s |-> "", d |-> digits]

RECURSIVE Decimal(_)
Decimal(n) == IF n < 10 THEN <<n>> ELSE Append(Decimal(n \div 10), n % 10)

RECURSIVE pad(_, _)
pad(width, digits) ==
    IF Len(digits) >= width THEN digits ELSE pad(width, <<0>> \o digits)

\* const LOG_DIR
LOG_DIR == <<Name(".veriisle")>>
Stdout == <<Name("<stdout>")>>

\* A log directory that does not depend on the expansion.
shared_log_dir(log_dir, i) == log_dir \o <<Name("expansions")>>

\* self.log_dir.join("expansions").join(format!("{:05}", i))
expansion_log_dir(log_dir, i) ==
    log_dir \o <<Name("expansions"), Number(pad(5, Decimal(i)))>>

\* log_dir.join(format!("{:03}", i))
solution_log_dir(log_dir, i) == Append(log_dir, Number(pad(3, Decimal(i))))

\* open_log_file: the path of the file created
open_log_file(log_dir, name) == Append(log_dir, Name(name))

\* Where verify_expansion writes its results
results_output(results_to_log_dir, log_dir) ==
    IF results_to_log_dir THEN open_log_file(log_dir, "results.out") ELSE Stdout

(***************************************************************************)
(* One type-inference solution in verify_expansion: what the match on its  *)
(* status does, and what verifying the instantiation returns for the       *)
(* solver's answers to the two checks.                                     *)
(***************************************************************************)
Solution(status, feasible, verified, decodable) ==
    [status |-> status, feasible |-> feasible, verified |-> verified,
     decodable |-> decodable]

\* A match in which only TypeError is fatal and every other status goes on
\* to the solver.
all_to_solver(status, skip_solver) ==
    IF status = "TypeError" THEN "fail" ELSE "verify"

\* match &solution.status { .. } and the skip_solver test after it
after_status(status, skip_solver) ==
    CASE status = "Solved" -> IF skip_solver THEN "continue" ELSE "verify"
      [] status = "Inapplicable" -> "skip"
      [] status = "Underconstrained" -> "fail"
      [] status = "TypeError" -> "fail"

\* verify_expansion_type_instantiation from the applicability check on
instantiation_result(solution) ==
    LET a == after_applicability(
                 [NewRun EXCEPT !.applicability = applicability_of(solution.feasible)])
    IN  IF a.rpc # "v_push" THEN a
        ELSE IF solution.verified = "sat"
             THEN IF solution.decodable
                  THEN after_verification([a.run EXCEPT !.verification = "failure"])
                  ELSE [rpc |-> "failed", run |-> [a.run EXCEPT !.err = "model"]]
             ELSE after_verification(
                      [a.run EXCEPT !.verification = verification_of(solution.verified)])

(***************************************************************************)
(* Runs of the runner: a configuration and the expansions the expander     *)
(* yields, each with the type-inference solutions of its conditions.       *)
(***************************************************************************)
\* Most expansions of a run, and most type-inference solutions of one.
MaxExpansions == 2
MaxSolutions == 2

ExpansionView(rules, named, specified, tags, conditions_ok, solutions) ==
    [rules |-> rules, named |-> named, specified |-> specified, tags |-> tags,
     term |-> "root", conditions_ok |-> conditions_ok, solutions |-> solutions]

Solved(feasible, verified, decodable) ==
    Solution("Solved", feasible, verified, decodable)
Unsolved(status) == Solution(status, "", "", FALSE)

SolutionPool ==
    << <<Solved("sat", "unsat", TRUE), Unsolved("Inapplicable"),
         Solved("sat", "unknown", TRUE)>>,
       <<Unsolved("Inapplicable"), Solved("unsat", "", TRUE),
         Solved("sat", "unsat", TRUE)>>,
       <<Solved("sat", "unsat", TRUE), Unsolved("Underconstrained"),
         Solved("sat", "unsat", TRUE)>>,
       <<Unsolved("Inapplicable"), Unsolved("TypeError"),
         Solved("sat", "unsat", TRUE)>>,
       <<Solved("unknown", "", TRUE), Solved("sat", "unsat", TRUE),
         Unsolved("Inapplicable")>>,
       <<Solved("sat", "sat", TRUE), Solved("sat", "unsat", TRUE),
         Unsolved("Inapplicable")>>,
       <<Solved("sat", "sat", FALSE), Solved("sat", "unsat", TRUE),
         Unsolved("Inapplicable")>> >>

Solutions(k) ==
    SubSeq(SolutionPool[k], 1,
           IF MaxSolutions < Len(SolutionPool[k]) THEN MaxSolutions
           ELSE Len(SolutionPool[k]))

ExpansionPool ==
    << ExpansionView(<<"r1">>, TRUE, TRUE, {}, TRUE, Solutions(1)),
       ExpansionView(<<"r1", "r2">>, TRUE, TRUE, {"solver_z3"}, TRUE, Solutions(2)),
       ExpansionView(<<"r2">>, TRUE, TRUE, {"solver_cvc5", "slow"}, TRUE, Solutions(3)),
       ExpansionView(<<"r1">>, FALSE, TRUE, {"solver_z3", "solver_cvc5"}, TRUE,
                     Solutions(4)),
       ExpansionView(<<"r1">>, TRUE, TRUE, {}, TRUE, Solutions(5)),
       ExpansionView(<<"r1">>, TRUE, TRUE, {"solver_cvc5"}, TRUE, Solutions(6)),
       ExpansionView(<<"r2">>, TRUE, TRUE, {}, TRUE, Solutions(7)),
       ExpansionView(<<"r1">>, TRUE, FALSE, {}, TRUE, Solutions(1)),
       ExpansionView(<<"r1">>, TRUE, TRUE, {"solver_z3"}, FALSE, Solutions(1)),
       ExpansionView(<<>>, FALSE, TRUE, {}, TRUE, Solutions(1)) >>

\* The expansions of a run: pool entries in the order of the pool
RECURSIVE Pick(_, _)
Pick(from, n) ==
    IF n = 0 \/ from > Len(ExpansionPool) THEN {<<>>}
    ELSE Pick(from + 1, n)
         \cup {<<ExpansionPool[from]>> \o rest : rest \in Pick(from + 1, n - 1)}

ExpansionLists == Pick(1, MaxExpansions)

RunnerSetup(filters, solver_rules, default_solver_backend) ==
    [filters |-> filters, solver_rules |-> solver_rules,
     default_solver_backend |-> default_solver_backend]

RunnerSetups ==
    { RunnerSetup(<<Filter(TRUE, Specified)>>,
                  <<SolverRule(PAnd(Tagged("solver_z3"),
                                    PNot(Tagged("solver_cvc5"))), "z3"),
                    solver_tag("cvc5"), solver_tag("z3")>>,
                  "cvc5"),
      RunnerSetup(<<Filter(TRUE, Root("root")), Filter(FALSE, Tagged("slow"))>>,
                  <<SolverRule(PNot(Tagged("slow")), "z3")>> \o solver_tag_rules,
                  "cvc5"),
      RunnerSetup(<<Filter(TRUE, FirstRuleNamed)>>,
                  <<solver_tag("cvc5"), SolverRule(ContainsRule("r9"), "z3"),
                    SolverRule(ContainsRule("r2"), "cvc5")>>,
                  "z3") }

Config(setup, results_to_log_dir, skip_solver, root_known, expansions) ==
    [filters |-> setup.filters, solver_rules |-> setup.solver_rules,
     default_solver_backend |-> setup.default_solver_backend,
     log_dir |-> LOG_DIR, results_to_log_dir |-> results_to_log_dir,
     skip_solver |-> skip_solver, root_known |-> root_known,
     expansions |-> expansions]

Configs ==
    { Config(setup, flags[1], flags[2], TRUE, expansions) :
        setup \in RunnerSetups,
        flags \in {<<TRUE, FALSE>>, <<FALSE, FALSE>>, <<TRUE, TRUE>>},
        expansions \in ExpansionLists }
    \cup { Config(setup, TRUE, FALSE, FALSE, <<>>) : setup \in RunnerSetups }

\* The closures and the run at their start
NewWork ==
    [pc |-> "pending", j |-> 0, backend |-> "", failed_type_inference |-> 0,
     type_instantiations |-> <<>>, err |-> ""]

NewExec(n) ==
    [pc |-> "start", result |-> "", work |-> [i \in 1..n |-> NewWork],
     writes |-> {}, procs |-> {}, report_written |-> FALSE, report |-> <<>>]

\* The ExpansionReport verify_expansion returns for the expansion with
\* index id, from the closure's work
ExpansionReport(id, work) ==
    [id |-> id, solver |-> work.backend,
     failed_type_inference |-> work.failed_type_inference,
     type_instantiations |-> work.type_instantiations]

\* The orders in which the elements of S can be listed
Orders(S) ==
    {order \in [1..Cardinality(S) -> S] :
        \A i, j \in 1..Cardinality(S) : order[i] = order[j] => i = j}

\* A report that lists the expansions in the order they were collected in.
as_collected(reports) == reports

\* expansion_reports.sort_by(|a, b| a.id.cmp(&b.id))
sort_by_id(reports) == SortSeq(reports, LAMBDA a, b : a.id < b.id)

NoConfig == Config(RunnerSetup(<<>>, <<>>, ""), FALSE, FALSE, FALSE, <<>>)

Write(path, worker, sol) == [path |-> path, worker |-> worker, sol |-> sol]

Failed(work, msg) == [work EXCEPT !.pc = "failed", !.err = msg]

Terminal == {"skipped", "abandoned", "done", "failed"}

(***************************************************************************)
(* Bit-vector terms as the adapter builds them (solver.rs, encoded/*.rs),  *)
(* and their SMT-LIB meaning.  A term is a literal of some width, a        *)
(* declared constant or the application of a function to terms.  The value *)
(* of a term is a width and a natural number below 2^width; a Boolean term *)
(* has width 0 and value 0 or 1.                                           *)
(***************************************************************************)
BV(w, v) == [w |-> w, v |-> v]

\* (_ bvN w)
TLit(w, v) == [f |-> "bv", args |-> <<>>, w |-> w, v |-> v, name |-> <<>>]
TConst(name, id) == [f |-> "const", args |-> <<>>, w |-> 0, v |-> 0, name |-> <<name, id>>]
TApp(f, args) == [f |-> f, args |-> args, w |-> 0, v |-> 0, name |-> <<>>]
\* (_ extract h l): the indices are kept in w and v
TExtract(h, l, x) == [f |-> "extract", args |-> <<x>>, w |-> h, v |-> l, name |-> <<>>]

\* smt.binary(bit_width, val): #b and the binary digits of val, padded with
\* zeros to at least bit_width digits
binary(bit_width, val) == Literal("#b", pad(bit_width, Digits(val, 2)))

\* smt.atom("#x.."): a literal of four bits per hexadecimal digit
hex(digits) == Literal("#x", digits)

\* The value of a literal
literal_value(t) ==
    IF t.sym = "#x" THEN BV(4 * Len(t.digits), from_str_radix(t.digits, 16))
    ELSE BV(Len(t.digits), from_str_radix(t.digits, 2))

RECURSIVE BitOp(_, _, _, _)
BitOp(op, a, b, n) ==
    IF n = 0 THEN 0
    ELSE LET x == a % 2
             y == b % 2
             bit == CASE op = "or" -> IF x + y > 0 THEN 1 ELSE 0
                      [] op = "and" -> x * y
         IN  bit + 2 * BitOp(op, a \div 2, b \div 2, n - 1)

\* The SMT-LIB functions on values
bvshl_value(x, s) ==
    BV(x.w, IF s.v >= x.w THEN 0 ELSE (x.v * Pow2(s.v)) % Pow2(x.w))
bvlshr_value(x, s) ==
    BV(x.w, IF s.v >= x.w THEN 0 ELSE x.v \div Pow2(s.v))
bvurem_value(x, y) == BV(x.w, IF y.v = 0 THEN x.v ELSE x.v % y.v)
bvsub_value(x, y) == BV(x.w, (x.v + Pow2(x.w) - y.v) % Pow2(x.w))
bvadd_value(x, y) == BV(x.w, (x.v + y.v) % Pow2(x.w))
bvnot_value(x) == BV(x.w, Pow2(x.w) - 1 - x.v)
extract_value(h, l, x) == BV(h - l + 1, (x.v \div Pow2(l)) % Pow2(h - l + 1))
Bit(p) == BV(0, IF p THEN 1 ELSE 0)

RECURSIVE TermValue(_, _)
TermValue(t, env) ==
    LET arg(i) == TermValue(t.args[i], env)
    IN  CASE t.f = "lit" -> literal_value(t)
          [] t.f = "bv" -> BV(t.w, t.v % Pow2(t.w))
          [] t.f = "const" -> env[t.name]
          [] t.f = "extract" -> extract_value(t.w, t.v, arg(1))
          [] t.f = "bvshl" -> bvshl_value(arg(1), arg(2))
          [] t.f = "bvlshr" -> bvlshr_value(arg(1), arg(2))
          [] t.f = "bvurem" -> bvurem_value(arg(1), arg(2))
          [] t.f = "bvsub" -> bvsub_value(arg(1), arg(2))
          [] t.f = "bvadd" -> bvadd_value(arg(1), arg(2))
          [] t.f = "bvnot" -> bvnot_value(arg(1))
          [] t.f = "bvor" -> BV(arg(1).w, BitOp("or", arg(1).v, arg(2).v, arg(1).w))
          [] t.f = "bvand" -> BV(arg(1).w, BitOp("and", arg(1).v, arg(2).v, arg(1).w))
          [] t.f = "=" -> Bit(arg(1) = arg(2))
          [] t.f = "not" -> Bit(arg(1).v = 0)
          [] t.f = "ite" -> IF arg(1).v = 1 THEN arg(2) ELSE arg(3)

\* A term is well sorted when the arguments of every function have the
\* widths the function wants.
RECURSIVE WellSorted(_, _)
WellSorted(t, env) ==
    /\ \A i \in 1..Len(t.args) : WellSorted(t.args[i], env)
    /\ t.f \in {"bvshl", "bvlshr", "bvurem", "bvsub", "bvadd", "bvor", "bvand", "="}
         => TermValue(t.args[1], env).w = TermValue(t.args[2], env).w
    /\ t.f = "extract" => t.v <= t.w /\ t.w < TermValue(t.args[1], env).w

(***************************************************************************)
(* Solver::constant, and what comes back for it.                           *)
(***************************************************************************)
\* smt.numeral(v) is a function of the solver library: a decimal literal
\* for v >= 0; for v < 0 either the text of v or the term (- n).
numeral(v) ==
    IF v >= 0 THEN {Numeral(v)}
    ELSE {Signed(0 - v), SList(<<Atom("-"), Numeral(0 - v)>>)}

\* Solver::constant: the encodings of a constant
Solver_constant(c) ==
    CASE c[1] = "Bool" -> {Atom(IF c[2] = 1 THEN "true" ELSE "false")}
      [] c[1] = "Int" -> numeral(c[2])
      [] c[1] = "BitVector" -> {binary(c[2], c[3])}

\* Display for Const
display(c) ==
    CASE c[1] = "Bool" -> Atom(IF c[2] = 1 THEN "true" ELSE "false")
      [] c[1] = "Int" -> IF c[2] >= 0 THEN Numeral(c[2]) ELSE Signed(0 - c[2])
      [] c[1] = "BitVector" ->
            IF c[2] % 4 = 0 THEN Literal("#x", pad(c[2] \div 4, Digits(c[3], 16)))
            ELSE Literal("#b", pad(c[2], Digits(c[3], 2)))

\* What a solver prints for the value of a closed literal term: a Boolean
\* or a numeral as it is, (- n) as it is, a bit-vector in binary or, when
\* its width allows, in hexadecimal; the text -n is no term and has no
\* value.
get_value(sexpr) ==
    IF sexpr.k = "List" THEN {sexpr}
    ELSE IF sexpr.sym \in {"#x", "#b"}
    THEN LET bv == literal_value(sexpr)
         IN  {Literal("#b", pad(bv.w, Digits(bv.v, 2)))}
             \cup (IF bv.w % 4 = 0
                   THEN {Literal("#x", pad(bv.w \div 4, Digits(bv.v, 16)))}
                   ELSE {})
    ELSE IF sexpr.sym = "-" THEN {}
    ELSE {sexpr}

(***************************************************************************)
(* Solver::encode_rotate                                                   *)
(***************************************************************************)
\* A rotation whose amount is not reduced modulo the width.
encode_rotate_unwrapped(op, source, amount, width) ==
    LET width_as_bv == binary(width, width)
        wrapped_delta == TApp("bvsub", <<width_as_bv, amount>>)
    IN  IF op = "Left"
        THEN TApp("bvor", <<TApp("bvshl", <<source, amount>>),
                            TApp("bvlshr", <<source, wrapped_delta>>)>>)
        ELSE TApp("bvor", <<TApp("bvshl", <<source, wrapped_delta>>),
                            TApp("bvlshr", <<source, amount>>)>>)

encode_rotate(op, source, amount, width) ==
    LET width_as_bv == binary(width, width)
        wrapped_amount == TApp("bvurem", <<amount, width_as_bv>>)
        wrapped_delta == TApp("bvsub", <<width_as_bv, wrapped_amount>>)
    IN  IF op = "Left"
        THEN TApp("bvor", <<TApp("bvshl", <<source, wrapped_amount>>),
                            TApp("bvlshr", <<source, wrapped_delta>>)>>)
        ELSE TApp("bvor", <<TApp("bvshl", <<source, wrapped_delta>>),
                            TApp("bvlshr", <<source, wrapped_amount>>)>>)

(***************************************************************************)
(* The encoded intrinsics (encoded/clz.rs, encoded/rev.rs).  An encoding   *)
(* declares constants, asserts formulas over them and returns the term     *)
(* that stands for the result.                                             *)
(***************************************************************************)
Declare(name, id, w) == [name |-> <<name, id>>, w |-> w]
Enc(decls, asserts, ret) == [decls |-> decls, asserts |-> asserts, ret |-> ret]

TEq(a, b) == TApp("=", <<a, b>>)
\* (ite (not (= y (_ bv0 w))) a b)
TIteNonZero(y, w, a, b) ==
    TApp("ite", <<TApp("not", <<TEq(y, TLit(w, 0))>>), a, b>>)

\* An encoding that declares the result and asserts nothing of it.
clz8_unconstrained(x, id) ==
    Enc(<<Declare("ret6", id, 8)>>, <<>>, TConst("ret6", id))

clz8(x, id) ==
    LET x8 == TExtract(7, 0, x)
        ret0 == TConst("ret0", id)
        ret3 == TConst("ret3", id)
        y4 == TConst("y4", id)
        x4 == TConst("x4", id)
        ret4 == TConst("ret4", id)
        y2 == TConst("y2", id)
        x2 == TConst("x2", id)
        ret5 == TConst("ret5", id)
        y1 == TConst("y1", id)
        x1 == TConst("x1", id)
        ret6 == TConst("ret6", id)
    IN  Enc(<<Declare("ret0", id, 8),
              Declare("ret3", id, 8), Declare("y4", id, 8), Declare("x4", id, 8),
              Declare("ret4", id, 8), Declare("y2", id, 8), Declare("x2", id, 8),
              Declare("ret5", id, 8), Declare("y1", id, 8), Declare("x1", id, 8),
              Declare("ret6", id, 8)>>,
            <<TEq(ret0, TLit(8, 0)),
              \* round 1
              TEq(y4, TApp("bvlshr", <<x8, hex(<<0, 4>>)>>)),
              TIteNonZero(y4, 8, TEq(ret3, ret0),
                          TEq(ret3, TApp("bvadd", <<ret0, TLit(8, 4)>>))),
              TIteNonZero(y4, 8, TEq(x4, y4), TEq(x4, x8)),
              \* round 2
              TEq(y2, TApp("bvlshr", <<x4, hex(<<0, 2>>)>>)),
              TIteNonZero(y2, 8, TEq(ret4, ret3),
                          TEq(ret4, TApp("bvadd", <<ret3, TLit(8, 2)>>))),
              TIteNonZero(y2, 8, TEq(x2, y2), TEq(x2, x4)),
              \* round 3
              TEq(y1, TApp("bvlshr", <<x2, hex(<<0, 1>>)>>)),
              TIteNonZero(y1, 8, TEq(ret5, ret4),
                          TEq(ret5, TApp("bvadd", <<ret4, TLit(8, 1)>>))),
              TIteNonZero(y1, 8, TEq(x1, y1), TEq(x1, x2)),
              \* last round
              TIteNonZero(x1, 8, TEq(ret6, ret5),
                          TEq(ret6, TApp("bvadd", <<ret5, TLit(8, 1)>>)))>>,
            ret6)

clz1(x, id) ==
    LET x1 == TExtract(0, 0, x)
        clz1ret == TConst("clz1ret", id)
    IN  Enc(<<Declare("clz1ret", id, 1)>>,
            <<TEq(clz1ret, TApp("bvnot", <<x1>>))>>,
            clz1ret)

\* The swaps of rev8 without their masks.
rev8_unmasked(x, id) ==
    LET x8 == TExtract(7, 0, x)
        x1 == TConst("x1", id)
        x2 == TConst("x2", id)
        rev8ret == TConst("rev8ret", id)
        swap(t, n) == TApp("bvor", <<TApp("bvlshr", <<t, hex(<<0, n>>)>>),
                                     TApp("bvshl", <<t, hex(<<0, n>>)>>)>>)
    IN  Enc(<<Declare("x1", id, 8), Declare("x2", id, 8), Declare("rev8ret", id, 8)>>,
            <<TEq(x1, swap(x8, 4)), TEq(x2, swap(x1, 2)), TEq(rev8ret, swap(x2, 1))>>,
            rev8ret)

rev8(x, id) ==
    LET x8 == TExtract(7, 0, x)
        x1 == TConst("x1", id)
        x2 == TConst("x2", id)
        rev8ret == TConst("rev8ret", id)
        masked(t, m) == TApp("bvand", <<t, hex(m)>>)
    IN  Enc(<<Declare("x1", id, 8), Declare("x2", id, 8), Declare("rev8ret", id, 8)>>,
            <<TEq(x1, TApp("bvor", <<TApp("bvlshr", <<x8, hex(<<0, 4>>)>>),
                                     TApp("bvshl", <<x8, hex(<<0, 4>>)>>)>>)),
              TEq(x2, TApp("bvor",
                    <<TApp("bvlshr", <<masked(x1, <<12, 12>>), hex(<<0, 2>>)>>),
                      TApp("bvshl", <<masked(x1, <<3, 3>>), hex(<<0, 2>>)>>)>>)),
              TEq(rev8ret, TApp("bvor",
                    <<TApp("bvlshr", <<masked(x2, <<10, 10>>), hex(<<0, 1>>)>>),
                      TApp("bvshl", <<masked(x2, <<5, 5>>), hex(<<0, 1>>)>>)>>))>>,
            rev8ret)

rev1(x, id) ==
    LET x1 == TExtract(0, 0, x)
        rev1ret == TConst("rev1ret", id)
    IN  Enc(<<Declare("rev1ret", id, 1)>>, <<TEq(rev1ret, x1)>>, rev1ret)

(***************************************************************************)
(* The solver on an encoding: the models of the assertions that extend     *)
(* the values the operands have, and the values the result has in them.    *)
(***************************************************************************)
RECURSIVE ConstsOf(_)
ConstsOf(t) ==
    (IF t.f = "const" THEN {t.name} ELSE {})
    \cup UNION {ConstsOf(t.args[i]) : i \in 1..Len(t.args)}

SortOf(decls, name) ==
    decls[CHOOSE i \in 1..Len(decls) : decls[i].name = name].w

\* The assignments that give env's constants env's values and every name
\* of names a value of its sort
RECURSIVE Extend(_, _, _)
Extend(env, names, decls) ==
    IF names = {} THEN {env}
    ELSE LET n == CHOOSE n \in names : TRUE
             w == SortOf(decls, n)
         IN  UNION {Extend(env @@ (n :> BV(w, v)), names \ {n}, decls) :
                        v \in 0..(Pow2(w) - 1)}

\* The extensions of env to the constants of the formula a that satisfy a.
\* An ite whose condition env decides is its branch, and an equation of an
\* unassigned constant with a term env decides has the one solution.
RECURSIVE Satisfying(_, _, _)
Satisfying(a, env, decls) ==
    LET free == ConstsOf(a) \ DOMAIN env
    IN  IF a.f = "ite" /\ ConstsOf(a.args[1]) \subseteq DOMAIN env
        THEN Satisfying(IF TermValue(a.args[1], env).v = 1 THEN a.args[2]
                       ELSE a.args[3], env, decls)
        ELSE IF /\ a.f = "="
                /\ a.args[1].f = "const"
                /\ a.args[1].name \notin DOMAIN env
                /\ ConstsOf(a.args[2]) \subseteq DOMAIN env
        THEN LET v == TermValue(a.args[2], env)
             IN  IF v.w = SortOf(decls, a.args[1].name)
                 THEN {env @@ (a.args[1].name :> v)} ELSE {}
        ELSE {e \in Extend(env, free, decls) : TermValue(a, e).v = 1}

RECURSIVE ModelsOf(_, _, _, _)
ModelsOf(asserts, i, envs, decls) ==
    IF i > Len(asserts) THEN envs
    ELSE ModelsOf(asserts, i + 1,
                  UNION {Satisfying(asserts[i], env, decls) : env \in envs}, decls)

RECURSIVE Flatten(_)
Flatten(seqs) == IF seqs = <<>> THEN <<>> ELSE Head(seqs) \o Flatten(Tail(seqs))

\* The values of the result of the encodings encs, asserted together, over
\* the models that extend env
ResultValues(encs, env) ==
    LET decls == Flatten([i \in 1..Len(encs) |-> encs[i].decls])
        asserts == Flatten([i \in 1..Len(encs) |-> encs[i].asserts])
        ret == encs[Len(encs)].ret
        models == ModelsOf(asserts, 1, {env}, decls)
    IN  {TermValue(ret, e) :
            e \in UNION {Extend(m, ConstsOf(ret) \ DOMAIN m, decls) : m \in models}}

\* Every assertion of the encodings is well sorted and no constant is
\* declared twice
Accepted(encs, env) ==
    LET decls == Flatten([i \in 1..Len(encs) |-> encs[i].decls])
        asserts == Flatten([i \in 1..Len(encs) |-> encs[i].asserts])
        all_names == {decls[i].name : i \in 1..Len(decls)}
        any_env == env @@ [n \in all_names |-> BV(SortOf(decls, n), 0)]
    IN  /\ \A i, j \in 1..Len(decls) : decls[i].name = decls[j].name => i = j
        /\ \A i \in 1..Len(asserts) :
              /\ WellSorted(asserts[i], any_env)
              /\ TermValue(asserts[i], any_env).w = 0

(***************************************************************************)
(* Expr::Cls, Expr::Clz, Expr::Rev and Expr::Popcnt in expr_to_smt: the    *)
(* encoding function the width of the operand selects.                     *)
(***************************************************************************)
Encoder(fn, width) == [fn |-> fn, width |-> width]
Unimplemented == Encoder("unimplemented", 0)

intrinsic(op, width) ==
    CASE op = "Cls" ->
            IF width \in {8, 16, 32, 64} THEN Encoder("cls", width) ELSE Unimplemented
      [] op = "Clz" ->
            IF width \in {1, 8, 16, 32, 64} THEN Encoder("clz", width) ELSE Unimplemented
      [] op = "Rev" ->
            IF width \in {1, 8, 16, 32, 64} THEN Encoder("rev", width) ELSE Unimplemented
      [] op = "Popcnt" ->
            IF width \in {8, 16, 32, 64} THEN Encoder("popcnt", width) ELSE Unimplemented

\* The encoders of the widths 1 and 8
encoding(encoder, x, id) ==
    CASE encoder = Encoder("clz", 1) -> clz1(x, id)
      [] encoder = Encoder("clz", 8) -> clz8(x, id)
      [] encoder = Encoder("rev", 1) -> rev1(x, id)
      [] encoder = Encoder("rev", 8) -> rev8(x, id)

(***************************************************************************)
(* Solver::encode on a table of expressions whose bit-vectors have one     *)
(* width: each expression is declared under its name and, unless it is a   *)
(* variable, defined by the term of expr_to_smt, which for an intrinsic    *)
(* declares the constants of its encoding.  The name <<s, n>> stands for   *)
(* the string "s_n" of a variable or of a constant of an encoding, and     *)
(* <<"e", n>> for the string "en" of an expression.                        *)
(***************************************************************************)
Table(exprs, variables) == [exprs |-> exprs, variables |-> variables]

\* let id: usize = x.index(), for the operand x of the expression
aux_id(table, x) == table.exprs[x + 1].args[1]

expr_name(table, x) ==
    IF table.exprs[x + 1].op = "Variable"
    THEN <<table.variables[table.exprs[x + 1].c[2] + 1].name, x>>
    ELSE <<"e", x>>

expr_atom(table, x) == TConst(expr_name(table, x)[1], expr_name(table, x)[2])

\* declare_expr(x), and assign_expr(x, expr) for an intrinsic: the
\* declarations and assertions sent for the expression x
encode_expr(table, width, x) ==
    LET expr == table.exprs[x + 1]
        own == Declare(expr_name(table, x)[1], expr_name(table, x)[2], width)
    IN  IF expr.op = "Variable" THEN Enc(<<own>>, <<>>, expr_atom(table, x))
        ELSE LET rhs == encoding(intrinsic(expr.op, width),
                                 expr_atom(table, expr.args[1]),
                                 aux_id(table, x))
             IN  Enc(<<own>> \o rhs.decls,
                     Append(rhs.asserts, TEq(expr_atom(table, x), rhs.ret)),
                     expr_atom(table, x))

\* for (i, expr) in exprs.iter().enumerate(): the commands in index order
Solver_encode(table, width) ==
    [i \in 1..Len(table.exprs) |-> encode_expr(table, width, i - 1)]

\* The names declared, in the order of their declarations
Declared(encs) ==
    LET decls == Flatten([i \in 1..Len(encs) |-> encs[i].decls])
    IN  [i \in 1..Len(decls) |-> decls[i].name]

(***************************************************************************)
(* Width and Type with their orders (types.rs).  partial_cmp gives Less,   *)
(* Equal or Greater, or None for values that are not comparable.           *)
(***************************************************************************)
WidthUnknown == [width |-> "Unknown", bits |-> 0]
WidthBits(bits) == [width |-> "Bits", bits |-> bits]

TypeOf(name) == [type |-> name, w |-> WidthUnknown]
TypeBitVector(w) == [type |-> "BitVector", w |-> w]

\* An order of the widths in which any two known widths are equal.
Width_partial_cmp_lax(l, r) ==
    IF l.width = r.width THEN "Equal"
    ELSE IF l.width = "Unknown" THEN "Less"
    ELSE "Greater"

Width_partial_cmp(l, r) ==
    CASE l.width = "Unknown" /\ r.width = "Unknown" -> "Equal"
      [] l.width = "Unknown" /\ r.width = "Bits" -> "Less"
      [] l.width = "Bits" /\ r.width = "Unknown" -> "Greater"
      [] l.width = "Bits" /\ r.width = "Bits" /\ l.bits = r.bits -> "Equal"
      [] OTHER -> "None"

Type_partial_cmp(l, r) ==
    IF l.type = "Unspecified" /\ r.type = "Unspecified" THEN "Equal"
    ELSE IF l.type = "Unspecified" \/ r.type = "Unspecified" THEN "None"
    ELSE IF l.type = "Unknown" /\ r.type = "Unknown" THEN "Equal"
    ELSE IF l.type = "Unknown" THEN "Less"
    ELSE IF r.type = "Unknown" THEN "Greater"
    ELSE IF l.type = "BitVector" /\ r.type = "BitVector"
    THEN Width_partial_cmp(l.w, r.w)
    ELSE IF l.type = r.type /\ l.type \in {"Int", "Bool", "Unit"} THEN "Equal"
    ELSE "None"

(***************************************************************************)
(* The builder as a state machine: Init is ConditionsBuilder::new on some  *)
(* scenario, each action is one iteration of the loop of build() that `pc` *)
(* names, and pc is "done" when from_expansion has returned the Conditions *)
(* and "error" when it has returned an Err.                                *)
(***************************************************************************)
VARIABLES prog, expansion, builder, pc, idx, rpc, smt, run, cfg, exec, calc

vars == <<prog, expansion, builder, pc, idx, rpc, smt, run, cfg, exec, calc>>
build_vars == <<prog, expansion, builder, pc, idx>>
verify_vars == <<rpc, smt, run>>

\* The value of calc where nothing is computed
NoCalc == [op |-> "", args |-> <<>>, out |-> <<>>]

Init ==
    \E s \in Scenarios :
        /\ prog = s.prog
        /\ expansion = s.expansion
        /\ builder = NewBuilder
        /\ pc = FirstFrom(s.prog, s.expansion, 1).pc
        /\ idx = FirstFrom(s.prog, s.expansion, 1).i
        /\ rpc = "idle"
        /\ smt = NewSolver
        /\ run = NewRun
        /\ cfg = NoConfig
        /\ exec = NewExec(0)
        /\ calc = NoCalc

\* The step b of the iteration (phase, idx) has run: go on to the next
\* iteration, or stop with the error.
Advance(phase, b) ==
    /\ builder' = b
    /\ pc' = IF Ok(b) THEN NextPos(prog, expansion, phase, idx).pc ELSE "error"
    /\ idx' = IF Ok(b) THEN NextPos(prog, expansion, phase, idx).i ELSE idx
    /\ UNCHANGED <<prog, expansion, rpc, smt, run, cfg, exec, calc>>

InitState ==
    /\ pc = "init_state"
    /\ Advance("init_state", build_step(builder, prog, expansion, "init_state", idx))

AddBinding ==
    /\ pc = "bindings"
    /\ Advance("bindings", build_step(builder, prog, expansion, "bindings", idx))

CalleeContract ==
    /\ pc = "callee"
    /\ Advance("callee", build_step(builder, prog, expansion, "callee", idx))

Constrain ==
    /\ pc = "constraints"
    /\ Advance("constraints", build_step(builder, prog, expansion, "constraints", idx))

Equals ==
    /\ pc = "equals"
    /\ Advance("equals", build_step(builder, prog, expansion, "equals", idx))

StateDefault ==
    /\ pc = "state_default"
    /\ Advance("state_default", build_step(builder, prog, expansion, "state_default", idx))

Validate ==
    /\ pc = "validate"
    /\ Advance("validate", build_step(builder, prog, expansion, "validate", idx))

Next ==
    \/ InitState
    \/ AddBinding
    \/ CalleeContract
    \/ Constrain
    \/ Equals
    \/ StateDefault
    \/ Validate

Spec == Init /\ [][Next]_vars

(***************************************************************************)
(* Verifying built conditions: the runner on the conditions from_expansion *)
(* returned, one solver command at a time.  rpc is the command to send     *)
(* next, "f_match" / "v_match" when a check has returned to the runner,    *)
(* "reported" when the runner has returned a VerifyReport and "failed"     *)
(* when it has returned an Err.                                            *)
(***************************************************************************)
InitVerify ==
    \E s \in Scenarios :
        /\ Ok(from_expansion(s.expansion, s.prog))
        /\ Evaluable(from_expansion(s.expansion, s.prog))
        /\ prog = s.prog
        /\ expansion = s.expansion
        /\ builder = from_expansion(s.expansion, s.prog)
        /\ pc = "done"
        /\ idx = 0
        /\ rpc = "encode"
        /\ smt = NewSolver
        /\ run = NewRun
        /\ cfg = NoConfig
        /\ exec = NewExec(0)
        /\ calc = NoCalc

Encode ==
    /\ rpc = "encode"
    /\ smt' = [smt EXCEPT !.declared = Len(builder.exprs),
                          !.sent = Append(@, "encode")]
    /\ rpc' = "f_push"
    /\ UNCHANGED <<build_vars, cfg, exec, calc, run>>

FeasibilityPush ==
    /\ rpc = "f_push"
    /\ smt' = smt_push(smt)
    /\ rpc' = "f_assert"
    /\ UNCHANGED <<build_vars, cfg, exec, calc, run>>

FeasibilityAssert ==
    /\ rpc = "f_assert"
    /\ smt' = smt_assert(smt, feasibility_condition(builder))
    /\ rpc' = "f_check"
    /\ UNCHANGED <<build_vars, cfg, exec, calc, run>>

FeasibilityCheck ==
    /\ rpc = "f_check"
    /\ \E response \in Responses(builder, smt) :
          /\ smt' = smt_check(smt, response)
          /\ run' = [run EXCEPT !.applicability = applicability_of(response)]
    /\ rpc' = "f_pop"
    /\ UNCHANGED <<build_vars, cfg, exec, calc>>

FeasibilityPop ==
    /\ rpc = "f_pop"
    /\ smt' = smt_pop(smt)
    /\ rpc' = "f_match"
    /\ UNCHANGED <<build_vars, cfg, exec, calc, run>>

MatchApplicability ==
    /\ rpc = "f_match"
    /\ rpc' = after_applicability(run).rpc
    /\ run' = after_applicability(run).run
    /\ UNCHANGED <<build_vars, cfg, exec, calc, smt>>

VerificationPush ==
    /\ rpc = "v_push"
    /\ smt' = smt_push(smt)
    /\ rpc' = "v_assert"
    /\ UNCHANGED <<build_vars, cfg, exec, calc, run>>

VerificationAssert ==
    /\ rpc = "v_assert"
    /\ smt' = smt_assert(smt, verification_condition(builder))
    /\ rpc' = "v_check"
    /\ UNCHANGED <<build_vars, cfg, exec, calc, run>>

VerificationCheck ==
    /\ rpc = "v_check"
    /\ \E response \in Responses(builder, smt) :
          /\ smt' = smt_check(smt, response)
          /\ IF response = "sat"
             THEN rpc' = "v_model" /\ run' = run
             ELSE /\ rpc' = "v_pop"
                  /\ run' = [run EXCEPT !.verification = verification_of(response)]
    /\ UNCHANGED <<build_vars, cfg, exec, calc>>

\* Verification::Failure(self.model()?): the solver prints some model of
\* its assertions.
VerificationModel ==
    /\ rpc = "v_model"
    /\ \E rho \in SolverModels(builder, smt) :
          LET m == solver_model(builder, smt, rho)
          IN  IF m.ok
              THEN /\ rpc' = "v_pop"
                   /\ run' = [run EXCEPT !.verification = "failure",
                                         !.model = m.model]
              ELSE /\ rpc' = "failed"
                   /\ run' = [run EXCEPT !.err = "model"]
    /\ smt' = [smt EXCEPT !.sent = Append(@, "get_value")]
    /\ UNCHANGED <<build_vars, cfg, exec, calc>>

VerificationPop ==
    /\ rpc = "v_pop"
    /\ smt' = smt_pop(smt)
    /\ rpc' = "v_match"
    /\ UNCHANGED <<build_vars, cfg, exec, calc, run>>

\* Verification::Failure(model) => { print_model(..)?; bail!(..) }
MatchVerification ==
    /\ rpc = "v_match"
    /\ rpc' = after_verification(run).rpc
    /\ run' = IF run.verification = "failure"
              THEN LET printed == print_model(builder, prog, run.model)
                   IN  IF printed.err # ""
                       THEN [run EXCEPT !.printed = printed,
                                        !.err = printed.err]
                       ELSE [after_verification(run).run
                                EXCEPT !.printed = printed]
              ELSE after_verification(run).run
    /\ UNCHANGED <<build_vars, cfg, exec, calc, smt>>

NextVerify ==
    \/ Encode
    \/ FeasibilityPush
    \/ FeasibilityAssert
    \/ FeasibilityCheck
    \/ FeasibilityPop
    \/ MatchApplicability
    \/ VerificationPush
    \/ VerificationAssert
    \/ VerificationCheck
    \/ VerificationModel
    \/ VerificationPop
    \/ MatchVerification

SpecVerify == InitVerify /\ [][NextVerify]_vars

(***************************************************************************)
(* Runner::run as a state machine.  exec.pc is where run is: "start",      *)
(* "map" while the parallel map over the expansions runs, "report" when    *)
(* every expansion gave Ok, "returned" when run has returned exec.result.  *)
(* exec.work[i] is the closure on expansion i - 1, at most one step of     *)
(* which is taken at a time, in any interleaving with the other closures.  *)
(* exec.writes holds who has written to which output, exec.procs the       *)
(* solver processes started.                                               *)
(***************************************************************************)
InitRun ==
    /\ cfg \in Configs
    /\ exec = NewExec(Len(cfg.expansions))
    /\ calc = NoCalc
    /\ prog = EmptyMap
    /\ expansion = EmptyMap
    /\ builder = NewBuilder
    /\ pc = "idle"
    /\ idx = 0
    /\ rpc = "idle"
    /\ smt = NewSolver
    /\ run = NewRun

\* The head of run: the expansions are generated, or run returns an Err.
Expand ==
    /\ exec.pc = "start"
    /\ exec' = IF cfg.root_known THEN [exec EXCEPT !.pc = "map"]
               ELSE [exec EXCEPT !.pc = "returned", !.result = "Err"]
    /\ UNCHANGED <<build_vars, verify_vars, cfg, calc>>

\* The closure of the map up to the loop over the solutions: should_verify,
\* then verify_expansion down to select_solver_backend.
start_expansion(c, x, i) ==
    LET e == c.expansions[i]
        v == should_verify(c.filters, e)
        log_dir == expansion_log_dir(c.log_dir, i - 1)
        output == results_output(c.results_to_log_dir, log_dir)
        wrote == [x EXCEPT !.writes = @ \cup {Write(output, i, 0)}]
        backend == select_solver_backend(c.solver_rules,
                                         c.default_solver_backend, e)
    IN  CASE v = "err" -> [x EXCEPT !.work[i] = Failed(@, "filter")]
          [] v = "false" -> [x EXCEPT !.work[i].pc = "skipped"]
          [] v = "true" ->
                IF e.rules = <<>>
                THEN [x EXCEPT !.work[i] = Failed(@, "description")]
                ELSE IF ~e.conditions_ok
                THEN [wrote EXCEPT !.work[i] = Failed(@, "conditions")]
                ELSE IF ~backend.ok
                THEN [wrote EXCEPT !.work[i] = Failed(@, "solver rule")]
                ELSE [wrote EXCEPT !.work[i].pc = "solution",
                                   !.work[i].j = 1,
                                   !.work[i].backend = backend.backend]

StartExpansion(i) ==
    /\ exec.pc = "map"
    /\ exec.work[i].pc = "pending"
    /\ exec' = start_expansion(cfg, exec, i)
    /\ UNCHANGED <<build_vars, verify_vars, cfg, calc>>

\* The map stops handing out expansions once one has returned an Err.
Abandon(i) ==
    /\ exec.pc = "map"
    /\ exec.work[i].pc = "pending"
    /\ \E k \in 1..Len(exec.work) : exec.work[k].pc = "failed"
    /\ exec' = [exec EXCEPT !.work[i].pc = "abandoned"]
    /\ UNCHANGED <<build_vars, verify_vars, cfg, calc>>

\* One iteration of the loop over the solutions up to the solver, or the
\* end of the loop.
next_solution(c, x, i) ==
    LET w == x.work[i]
        e == c.expansions[i]
        output == results_output(c.results_to_log_dir,
                                 expansion_log_dir(c.log_dir, i - 1))
        wrote == [x EXCEPT !.writes = @ \cup {Write(output, i, w.j)}]
        todo == after_status(e.solutions[w.j].status, c.skip_solver)
    IN  IF w.j > Len(e.solutions) THEN [x EXCEPT !.work[i].pc = "done"]
        ELSE CASE todo = "verify" -> [wrote EXCEPT !.work[i].pc = "spawn"]
               [] todo = "continue" ->
                    [wrote EXCEPT !.work[i].j = @ + 1,
                                  !.writes = @ \cup {Write(Stdout, i, w.j)}]
               [] todo = "skip" ->
                    [wrote EXCEPT !.work[i].j = @ + 1,
                                  !.work[i].failed_type_inference = @ + 1]
               [] todo = "fail" ->
                    [wrote EXCEPT !.work[i] = Failed(@, "type inference")]

NextSolution(i) ==
    /\ exec.work[i].pc = "solution"
    /\ exec' = next_solution(cfg, exec, i)
    /\ UNCHANGED <<build_vars, verify_vars, cfg, calc>>

\* verify_expansion_type_instantiation: the replay file is created and the
\* solver process started.
spawn_solver(c, x, i) ==
    LET w == x.work[i]
        log_dir == solution_log_dir(expansion_log_dir(c.log_dir, i - 1), w.j - 1)
    IN  [x EXCEPT !.work[i].pc = "verify",
                  !.writes = @ \cup {Write(open_log_file(log_dir, "solver.smt2"),
                                           i, w.j)},
                  !.procs = @ \cup {[pid |-> Cardinality(x.procs) + 1,
                                     worker |-> i, sol |-> w.j,
                                     backend |-> w.backend, alive |-> TRUE]}]

Spawn(i) ==
    /\ exec.work[i].pc = "spawn"
    /\ exec' = spawn_solver(cfg, exec, i)
    /\ UNCHANGED <<build_vars, verify_vars, cfg, calc>>

\* The checks of the instantiation, its lines of results, and the solver
\* dropped on return.
verify_instantiation(c, x, i) ==
    LET w == x.work[i]
        r == instantiation_result(c.expansions[i].solutions[w.j])
        output == results_output(c.results_to_log_dir,
                                 expansion_log_dir(c.log_dir, i - 1))
        done == [x EXCEPT
                   !.writes = @ \cup {Write(output, i, w.j)}
                       \cup (IF r.run.verification = "failure"
                             THEN {Write(Stdout, i, w.j)} ELSE {}),
                   !.procs = {IF p.worker = i /\ p.sol = w.j
                              THEN [p EXCEPT !.alive = FALSE] ELSE p : p \in @}]
    IN  IF r.rpc = "reported"
        THEN [done EXCEPT !.work[i].pc = "solution", !.work[i].j = @ + 1,
                          !.work[i].type_instantiations =
                              Append(@, r.run.verdict)]
        ELSE [done EXCEPT !.work[i] = Failed(@, r.run.err)]

VerifyInstantiation(i) ==
    /\ exec.work[i].pc = "verify"
    /\ exec' = verify_instantiation(cfg, exec, i)
    /\ UNCHANGED <<build_vars, verify_vars, cfg, calc>>

\* .collect::<Result<Vec<_>>>()?.into_iter().flatten().collect(): the
\* reports of the closures that returned Some, in an order left open (any
\* order the closures may have been collected in).
Collect ==
    /\ exec.pc = "map"
    /\ \A i \in 1..Len(exec.work) : exec.work[i].pc \in Terminal
    /\ IF \E i \in 1..Len(exec.work) : exec.work[i].pc = "failed"
       THEN exec' = [exec EXCEPT !.pc = "returned", !.result = "Err"]
       ELSE \E order \in Orders({i \in 1..Len(exec.work) :
                                    exec.work[i].pc = "done"}) :
               exec' = [exec EXCEPT
                          !.pc = "report",
                          !.report = [k \in 1..Len(order) |->
                                         ExpansionReport(order[k] - 1,
                                                         exec.work[order[k]])]]
    /\ UNCHANGED <<build_vars, verify_vars, cfg, calc>>

\* The reports are sorted by id, the report is written and run returns Ok.
WriteReport ==
    /\ exec.pc = "report"
    /\ exec' = [exec EXCEPT
                  !.pc = "returned", !.result = "Ok", !.report_written = TRUE,
                  !.report = sort_by_id(@),
                  !.writes = @ \cup
                      {Write(open_log_file(cfg.log_dir, "report.json"), 0, 0)}]
    /\ UNCHANGED <<build_vars, verify_vars, cfg, calc>>

NextRun ==
    \/ Expand
    \/ \E i \in 1..Len(cfg.expansions) : StartExpansion(i)
    \/ \E i \in 1..Len(cfg.expansions) : Abandon(i)
    \/ \E i \in 1..Len(cfg.expansions) : NextSolution(i)
    \/ \E i \in 1..Len(cfg.expansions) : Spawn(i)
    \/ \E i \in 1..Len(cfg.expansions) : VerifyInstantiation(i)
    \/ Collect
    \/ WriteReport

SpecRun == InitRun /\ [][NextRun]_vars

(***************************************************************************)
(* The encodings as a state machine: calc holds one call of an encoding    *)
(* function on concrete operands, and the action of that function builds   *)
(* the term and evaluates it as the solver would.                          *)
(***************************************************************************)
MaxWidth == 4

Call(op, args) == [op |-> op, args |-> args, out |-> <<>>]

Source == <<"source", 0>>
Amount == <<"amount", 0>>

\* The operands of a rotation: a direction, a width and two values of it
RotateInputs ==
    {Call("rotate", <<d, w, x, k>>) :
        d \in {"Left", "Right"}, w \in 1..MaxWidth,
        x \in 0..(Pow2(MaxWidth) - 1), k \in 0..(Pow2(MaxWidth) - 1)}

RotateCalls == {c \in RotateInputs : c.args[3] < Pow2(c.args[2]) /\ c.args[4] < Pow2(c.args[2])}

\* The constants: the Booleans, integers of either sign, and the
\* bit-vectors of the widths 1..MaxBits
MaxBits == 8

Consts ==
    {ConstBool(TRUE), ConstBool(FALSE)}
    \cup {ConstInt(n) : n \in IntValues}
    \cup UNION {{ConstBitVector(w, v) : v \in 0..(Pow2(w) - 1)} : w \in 1..MaxBits}

ConstantCalls == {Call("constant", <<c>>) : c \in Consts}

\* The operand of an intrinsic: the expression 0, of a width and a value
Operand == <<"e", 0>>

IntrinsicCalls ==
    UNION {{Call(op, <<w, x>>) : x \in 0..(Pow2(w) - 1)} :
              op \in {"Clz", "Rev"}, w \in {1, 8}}

\* The widths an operand is given: those of the encodings, and others
Widths == {1, 2, 8, 16, 32, 64, 128}

DispatchCalls ==
    {Call("expr_to_smt", <<op, w>>) :
        op \in {"Cls", "Clz", "Rev", "Popcnt"}, w \in Widths}

\* The widths and the types that are compared, three at a time
SomeWidths == {WidthUnknown, WidthBits(32), WidthBits(64)}

SomeTypes ==
    {TypeOf("Unspecified"), TypeOf("Unknown"), TypeOf("Int"), TypeOf("Bool"),
     TypeOf("Unit")} \cup {TypeBitVector(w) : w \in SomeWidths}

CompareCalls ==
    {Call("Width", <<a, b, c>>) : a \in SomeWidths, b \in SomeWidths, c \in SomeWidths}
    \cup {Call("Type", <<a, b, c>>) : a \in SomeTypes, b \in SomeTypes, c \in SomeTypes}

\* Filter lists of up to MaxFilters filters, and the expansions they are
\* evaluated on: with and without rules, a named first rule, the tag TODO
MaxFilters == 3

FilterPool ==
    {Filter(include, predicate) :
        include \in BOOLEAN,
        predicate \in {FirstRuleNamed, Specified, Tagged("TODO")}}

RECURSIVE FilterLists(_)
FilterLists(n) ==
    IF n = 0 THEN {<<>>}
    ELSE FilterLists(n - 1)
         \cup {Append(fs, f) : fs \in {l \in FilterLists(n - 1) : Len(l) = n - 1},
                               f \in FilterPool}

FilteredViews ==
    {ExpansionView(rules, named, specified, tags, TRUE, <<>>) :
        rules \in {<<>>, <<"r1">>}, named \in BOOLEAN, specified \in BOOLEAN,
        tags \in {{}, {"TODO"}, {"TODO", "slow"}}}

FilterCalls ==
    {Call("should_verify", <<fs, e>>) :
        fs \in FilterLists(MaxFilters),
        e \in {v \in FilteredViews : v.rules = <<>> => ~v.named}}

MainCalls ==
    {Call("main", <<fs, skip_todo, e>>) :
        fs \in FilterLists(1), skip_todo \in BOOLEAN,
        e \in {v \in FilteredViews : v.rules = <<>> => ~v.named}}

\* Tables of bit-vector variables and intrinsics of them: two intrinsics of
\* one operand, of two operands, and intrinsics of intrinsics
EncodeTables ==
    LET b0 == [ty |-> "BitVector", name |-> "b0"]
        b1 == [ty |-> "BitVector", name |-> "b1"]
    IN  {Table(<<ExprVariable(0), ExprOp1(f, 0), ExprOp1(g, 0)>>, <<b0>>) :
            f \in {"Clz", "Rev"}, g \in {"Clz", "Rev"}}
        \cup {Table(<<ExprVariable(0), ExprVariable(1), ExprOp1(f, 0),
                      ExprOp1(g, 1)>>, <<b0, b1>>) :
                 f \in {"Clz", "Rev"}, g \in {"Clz", "Rev"}}
        \cup {Table(<<ExprVariable(0), ExprOp1(f, 0), ExprOp1(g, 1)>>, <<b0>>) :
                 f \in {"Clz", "Rev"}, g \in {"Clz", "Rev"}}
        \cup {Table(<<ExprVariable(0), ExprOp1(f, 0)>>, <<b0>>) :
                 f \in {"Clz", "Rev"}}

\* dedup_expr keeps the expressions of a table distinct
EncodeCalls ==
    {Call("encode", <<w, t>>) :
        w \in {1, 8},
        t \in {u \in EncodeTables :
                  \A i, j \in 1..Len(u.exprs) : u.exprs[i] = u.exprs[j] => i = j}}

CalcInputs ==
    RotateCalls \cup ConstantCalls \cup IntrinsicCalls \cup DispatchCalls
    \cup CompareCalls \cup FilterCalls \cup MainCalls \cup EncodeCalls

InitCalc ==
    /\ calc \in CalcInputs
    /\ cfg = NoConfig
    /\ exec = NewExec(0)
    /\ prog = EmptyMap
    /\ expansion = EmptyMap
    /\ builder = NewBuilder
    /\ pc = "idle"
    /\ idx = 0
    /\ rpc = "idle"
    /\ smt = NewSolver
    /\ run = NewRun

\* Expr::BVRotl / Expr::BVRotr in expr_to_smt, on operands whose values the
\* solver knows
Rotate ==
    /\ calc.op = "rotate"
    /\ calc.out = <<>>
    /\ LET w == calc.args[2]
           env == (Source :> BV(w, calc.args[3])) @@ (Amount :> BV(w, calc.args[4]))
           term == encode_rotate(calc.args[1], TConst("source", 0), TConst("amount", 0), w)
       IN  calc' = [calc EXCEPT !.out = <<WellSorted(term, env), TermValue(term, env)>>]
    /\ UNCHANGED <<build_vars, verify_vars, cfg, exec>>

\* Solver::constant on a constant, the solver asked for the value of the
\* term, and const_from_sexpr on the answer.  Without an answer there is
\* nothing to decode.
RoundTrip ==
    /\ calc.op = "constant"
    /\ calc.out = <<>>
    /\ \E sent \in Solver_constant(calc.args[1]) :
          IF get_value(sent) = {}
          THEN calc' = [calc EXCEPT !.out = <<[sent |-> sent, echo |-> sent,
                                               decoded |-> Undecoded]>>]
          ELSE \E echo \in get_value(sent) :
                  calc' = [calc EXCEPT !.out = <<[sent |-> sent, echo |-> echo,
                                                  decoded |-> const_from_sexpr(echo)]>>]
    /\ UNCHANGED <<build_vars, verify_vars, cfg, exec>>

\* Expr::Clz in expr_to_smt on an operand whose value the solver knows:
\* whether the solver accepts what is declared and asserted, and the
\* values the returned constant has in the models
Clz ==
    /\ calc.op = "Clz"
    /\ calc.out = <<>>
    /\ LET env == (Operand :> BV(calc.args[1], calc.args[2]))
           enc == encoding(intrinsic("Clz", calc.args[1]), TConst("e", 0), 0)
       IN  calc' = [calc EXCEPT !.out = <<Accepted(<<enc>>, env),
                                          ResultValues(<<enc>>, env)>>]
    /\ UNCHANGED <<build_vars, verify_vars, cfg, exec>>

\* Expr::Rev in expr_to_smt, on the operand and then on the expression 1
\* that is the reversed operand
Rev ==
    /\ calc.op = "Rev"
    /\ calc.out = <<>>
    /\ LET env == (Operand :> BV(calc.args[1], calc.args[2]))
           once == encoding(intrinsic("Rev", calc.args[1]), TConst("e", 0), 0)
           twice == encoding(intrinsic("Rev", calc.args[1]), once.ret, 1)
       IN  calc' = [calc EXCEPT !.out = <<Accepted(<<once>>, env),
                                          ResultValues(<<once>>, env),
                                          Accepted(<<once, twice>>, env),
                                          ResultValues(<<once, twice>>, env)>>]
    /\ UNCHANGED <<build_vars, verify_vars, cfg, exec>>

\* The match on the width in expr_to_smt for an intrinsic
Dispatch ==
    /\ calc.op = "expr_to_smt"
    /\ calc.out = <<>>
    /\ calc' = [calc EXCEPT !.out = <<intrinsic(calc.args[1], calc.args[2])>>]
    /\ UNCHANGED <<build_vars, verify_vars, cfg, exec>>

\* partial_cmp on each pair of three widths or three types a, b, c
Comparisons(cmp(_, _), a, b, c) ==
    [aa |-> cmp(a, a), ab |-> cmp(a, b), ba |-> cmp(b, a),
     bc |-> cmp(b, c), ac |-> cmp(a, c)]

CompareWidths ==
    /\ calc.op = "Width"
    /\ calc.out = <<>>
    /\ calc' = [calc EXCEPT !.out = <<Comparisons(Width_partial_cmp, calc.args[1],
                                                   calc.args[2], calc.args[3])>>]
    /\ UNCHANGED <<build_vars, verify_vars, cfg, exec>>

CompareTypes ==
    /\ calc.op = "Type"
    /\ calc.out = <<>>
    /\ calc' = [calc EXCEPT !.out = <<Comparisons(Type_partial_cmp, calc.args[1],
                                                   calc.args[2], calc.args[3])>>]
    /\ UNCHANGED <<build_vars, verify_vars, cfg, exec>>

\* Runner::should_verify on a list of filters and an expansion
ShouldVerify ==
    /\ calc.op = "should_verify"
    /\ calc.out = <<>>
    /\ calc' = [calc EXCEPT !.out = <<should_verify(calc.args[1], calc.args[2])>>]
    /\ UNCHANGED <<build_vars, verify_vars, cfg, exec>>

\* main: configure the runner's filters from the options, and the decision
\* of the run on an expansion
Main ==
    /\ calc.op = "main"
    /\ calc.out = <<>>
    /\ LET filters == main_filters(calc.args[1], calc.args[2])
       IN  calc' = [calc EXCEPT !.out = <<filters,
                                          should_verify(filters, calc.args[3])>>]
    /\ UNCHANGED <<build_vars, verify_vars, cfg, exec>>

\* Solver::encode on a table: the names it declares, in order, and whether
\* the solver accepts the declarations and assertions, the variables being
\* of any value
EncodeExprs ==
    /\ calc.op = "encode"
    /\ calc.out = <<>>
    /\ LET encs == Solver_encode(calc.args[2], calc.args[1])
       IN  calc' = [calc EXCEPT !.out = <<Declared(encs),
                                          Accepted(encs, EmptyMap)>>]
    /\ UNCHANGED <<build_vars, verify_vars, cfg, exec>>

NextCalc ==
    \/ Rotate
    \/ RoundTrip
    \/ Clz
    \/ Rev
    \/ Dispatch
    \/ CompareWidths
    \/ CompareTypes
    \/ ShouldVerify
    \/ Main
    \/ EncodeExprs

SpecCalc == InitCalc /\ [][NextCalc]_vars

(***************************************************************************)
(* compile (isle/src/compile.rs) as a state machine: calc holds one call   *)
(* of compile on definitions for which sema::TypeEnv::from_ast,            *)
(* sema::TermEnv::from_ast and overlap::check give the errors args[1],     *)
(* args[2] and args[3] (none when the stage succeeds), and calc.out is     *)
(* the stages run so far, ended by what compile returned.                  *)
(***************************************************************************)
MaxErrors == 2

\* The errors of a stage: at most MaxErrors of them, in some order
RECURSIVE ErrorLists(_)
ErrorLists(n) ==
    IF n = 0 THEN {<<>>}
    ELSE ErrorLists(n - 1)
         \cup {Append(l, e) : l \in {l \in ErrorLists(n - 1) : Len(l) = n - 1},
                              e \in 1..MaxErrors}

CompileCalls ==
    {Call("compile", <<t, u, o>>) :
        t \in ErrorLists(MaxErrors), u \in ErrorLists(MaxErrors),
        o \in ErrorLists(MaxErrors)}

InitCompile ==
    /\ calc \in CompileCalls
    /\ cfg = NoConfig
    /\ exec = NewExec(0)
    /\ prog = EmptyMap
    /\ expansion = EmptyMap
    /\ builder = NewBuilder
    /\ pc = "idle"
    /\ idx = 0
    /\ rpc = "idle"
    /\ smt = NewSolver
    /\ run = NewRun

Ran(stage) == [stage |-> stage, errs |-> <<>>]
\* Err(Errors::new(errs, files))
ReturnErr(errs) == [stage |-> "Err", errs |-> errs]
\* Ok(codegen::codegen(..))
ReturnOk == [stage |-> "Ok", errs |-> <<>>]

CompileReturned(log) ==
    log # <<>> /\ log[Len(log)].stage \in {"Err", "Ok"}

\* The position of compile: the stage that runs next
CompileAt(stage, before) ==
    /\ calc.op = "compile"
    /\ ~CompileReturned(calc.out)
    /\ [i \in 1..Len(calc.out) |-> calc.out[i].stage] = before

\* A match that goes on to the next stage with the errors of this one.
match_stage_dropping(log, stage, errs) == Append(log, Ran(stage))

\* match stage { Ok(v) => v, Err(errs) => return Err(Errors::new(errs, files)) }
match_stage(log, stage, errs) ==
    IF errs = <<>> THEN Append(log, Ran(stage))
    ELSE log \o <<Ran(stage), ReturnErr(errs)>>

TypeEnvFromAst ==
    /\ CompileAt("type_env", <<>>)
    /\ calc' = [calc EXCEPT !.out = match_stage(@, "type_env", calc.args[1])]
    /\ UNCHANGED <<build_vars, verify_vars, cfg, exec>>

TermEnvFromAst ==
    /\ CompileAt("term_env", <<"type_env">>)
    /\ calc' = [calc EXCEPT !.out = match_stage(@, "term_env", calc.args[2])]
    /\ UNCHANGED <<build_vars, verify_vars, cfg, exec>>

OverlapCheck ==
    /\ CompileAt("overlap", <<"type_env", "term_env">>)
    /\ calc' = [calc EXCEPT !.out = match_stage(@, "overlap", calc.args[3])]
    /\ UNCHANGED <<build_vars, verify_vars, cfg, exec>>

Codegen ==
    /\ CompileAt("codegen", <<"type_env", "term_env", "overlap">>)
    /\ calc' = [calc EXCEPT !.out = @ \o <<Ran("codegen"), ReturnOk>>]
    /\ UNCHANGED <<build_vars, verify_vars, cfg, exec>>

NextCompile ==
    \/ TypeEnvFromAst
    \/ TermEnvFromAst
    \/ OverlapCheck
    \/ Codegen

SpecCompile == InitCompile /\ [][NextCompile]_vars

(***************************************************************************)
(* Reading the built conditions.                                           *)
(***************************************************************************)
Range(seq) == {seq[i] : i \in 1..Len(seq)}
IsSuffix(s, t) ==
    Len(s) <= Len(t) /\ SubSeq(t, Len(t) - Len(s) + 1, Len(t)) = s

\* The assumptions / assertions pushed while the call logged as g ran.
CallAssumptions(b, g) == SubSeq(b.assumptions, g.assumptions0 + 1, g.assumptions1)
CallAssertions(b, g) == SubSeq(b.assertions, g.assertions0 + 1, g.assertions1)

\* id is the constraint 0 <= d /\ d < n on the expression d.
IsRange(b, id, d, n) ==
    LET e == ExprAt(b, id)
    IN  /\ e.op = "And"
        /\ ExprAt(b, e.args[1]).op = "Lte"
        /\ ExprAt(b, ExprAt(b, e.args[1]).args[1]) = ExprConst(ConstInt(0))
        /\ ExprAt(b, e.args[1]).args[2] = d
        /\ ExprAt(b, e.args[2]).op = "Lt"
        /\ ExprAt(b, e.args[2]).args[1] = d
        /\ ExprAt(b, ExprAt(b, e.args[2]).args[2]) = ExprConst(ConstInt(n))

IsSomeRange(b, id) ==
    \E d \in 0..(Len(b.exprs) - 1), n \in 0..MaxVariants : IsRange(b, id, d, n)

\* id is is_some = (conjunction of the matches), the equation of a partial call
IsDomainEquation(b, g, id) ==
    /\ g.partial
    /\ ExprAt(b, id).op = "Eq"
    /\ ExprAt(b, id).args[1] = g.some

(***************************************************************************)
(* C1 (as amended): a call routes its clauses by its invocation.  At a     *)
(* caller's call site the assertions the call adds are exactly its         *)
(* requires clauses and the assumptions it adds end with the routed        *)
(* clauses; for the root term (callee) the assertions it adds are exactly  *)
(* the routed clauses and the assumptions it adds end with its requires    *)
(* clauses.  The routed clauses are the provides clauses themselves for a  *)
(* total call, and not for a partial one.  Anything else the call adds to  *)
(* the assumptions is an enum range constraint or the partial call's       *)
(* domain equation; it adds nothing else to the assertions.                *)
(***************************************************************************)
CallRouted(b, g) ==
    LET asm == CallAssumptions(b, g)
        ast == CallAssertions(b, g)
        mine == IF g.invocation = "Caller" THEN g.routed ELSE g.requires
        theirs == IF g.invocation = "Caller" THEN g.requires ELSE g.routed
    IN  /\ g.invocation \in {"Caller", "Callee"}
        /\ ast = theirs
        /\ IsSuffix(mine, asm)
        /\ \A i \in 1..(Len(asm) - Len(mine)) :
               IsSomeRange(b, asm[i]) \/ IsDomainEquation(b, g, asm[i])
        /\ ~g.partial => g.routed = g.provides
        /\ g.partial => Len(g.routed) = 1 /\ g.routed[1] \notin Range(g.provides)

C1_Routing ==
    \A i \in 1..Len(builder.glog) : CallRouted(builder, builder.glog[i])

\* A finished build with a total call from a caller and the root's own
\* contract, each with requires and provides clauses.
C1_Witness ==
    /\ pc = "done"
    /\ \E i, j \in 1..Len(builder.glog) :
          /\ builder.glog[i].invocation = "Caller"
          /\ builder.glog[j].invocation = "Callee"
          /\ \A k \in {i, j} :
                /\ ~builder.glog[k].partial
                /\ builder.glog[k].requires # <<>>
                /\ builder.glog[k].provides # <<>>

\* C1 as stated: every provides clause is itself added to the assumptions
\* (caller) or the assertions (callee), for every call.
C1_EveryProvidesAdded ==
    \A i \in 1..Len(builder.glog) :
        LET g == builder.glog[i]
        IN  IF g.invocation = "Caller"
            THEN /\ Range(g.requires) \subseteq Range(CallAssertions(builder, g))
                 /\ Range(g.provides) \subseteq Range(CallAssumptions(builder, g))
            ELSE /\ Range(g.requires) \subseteq Range(CallAssumptions(builder, g))
                 /\ Range(g.provides) \subseteq Range(CallAssertions(builder, g))

PartialCalls(b) == {i \in 1..Len(b.glog) : b.glog[i].partial}

RECURSIVE IsFold(_, _, _, _, _)
IsFold(b, op, unit, id, ids) ==
    CASE ids = <<>> -> ExprAt(b, id) = ExprConst(ConstBool(unit))
      [] Len(ids) = 1 -> id = ids[1]
      [] OTHER ->
            /\ ExprAt(b, id).op = op
            /\ ExprAt(b, id).args[2] = ids[Len(ids)]
            /\ IsFold(b, op, unit, ExprAt(b, id).args[1],
                      SubSeq(ids, 1, Len(ids) - 1))

(***************************************************************************)
(* C3: a partial call routes, in place of its provides clauses, the single *)
(* expression AND(matches) => AND(provides): that expression alone is what *)
(* the call adds to the assumptions (caller, after the domain equation and *)
(* enum range constraints) or to the assertions (callee), and it holds in  *)
(* every valuation in which some matches clause is false, whatever the     *)
(* provides clauses are there.                                             *)
(***************************************************************************)
GuardedProvides(b, g) ==
    LET asm == CallAssumptions(b, g)
        ast == CallAssertions(b, g)
        imp == ExprAt(b, g.routed[1])
    IN  /\ Len(g.routed) = 1
        /\ imp.op = "Imp"
        /\ IsFold(b, "And", TRUE, imp.args[1], g.matches)
        /\ IsFold(b, "And", TRUE, imp.args[2], g.provides)
        /\ IF g.invocation = "Caller"
           THEN /\ ast = g.requires
                /\ asm # <<>> /\ asm[Len(asm)] = g.routed[1]
                /\ \A i \in 1..(Len(asm) - 1) :
                       IsSomeRange(b, asm[i]) \/ IsDomainEquation(b, g, asm[i])
           ELSE /\ ast = g.routed
                /\ IsSuffix(g.requires, asm)
                /\ \A i \in 1..(Len(asm) - Len(g.requires)) :
                       IsSomeRange(b, asm[i]) \/ IsDomainEquation(b, g, asm[i])

C3_ProvidesGuarded ==
    /\ \A i \in PartialCalls(builder) : GuardedProvides(builder, builder.glog[i])
    /\ (pc = "done" /\ Evaluable(builder)) =>
          \A i \in PartialCalls(builder) :
            \A rho \in Valuations(builder.variables, Len(builder.variables)) :
                (\E k \in Range(builder.glog[i].matches) : ~Holds(builder, rho, k))
                    => Holds(builder, rho, builder.glog[i].routed[1])

\* Built conditions with a partial call of a caller that has matches and two
\* provides clauses, and a model of the assumptions in which a matches
\* clause and a provides clause are both false.
C3_Witness ==
    /\ pc = "done" /\ Evaluable(builder)
    /\ \E i \in PartialCalls(builder) : \E rho \in Models(builder) :
          LET g == builder.glog[i]
          IN  /\ g.invocation = "Caller"
              /\ Len(g.provides) = 2
              /\ \E k \in Range(g.matches) : ~Holds(builder, rho, k)
              /\ \E k \in Range(g.provides) : ~Holds(builder, rho, k)

(***************************************************************************)
(* C6: every symbolic enum the builder has constructed (those allocated    *)
(* from a type model and those built by a spec enum constructor all reach  *)
(* the recorded variant instantiations) has its variants' discriminants in *)
(* position order 0, 1, .., N - 1 and its range constraint                 *)
(* 0 <= discriminant /\ discriminant < N among the assumptions, so that in *)
(* every model of the assumptions the discriminant lies in 0 .. N - 1; and *)
(* the build does not get past an allocation or a spec constructor of an   *)
(* enum type whose variant ids are not 0, 1, .., N - 1 in order.           *)
(***************************************************************************)
ValueEnums(v) == IF v.k = "Enum" THEN {v} ELSE {}
Enums(b) ==
    UNION ({ValueEnums(b.calls[i].ret) : i \in 1..Len(b.calls)}
           \cup {ValueEnums(b.binding_value[i]) : i \in DOMAIN b.binding_value})

Positional(model) ==
    \A k \in 1..Len(model.variants) : model.variants[k].id = k - 1

\* The enum types a spec expression constructs
RECURSIVE Constructed(_)
Constructed(expr) ==
    (IF expr.k = "Enum" THEN {expr.name} ELSE {})
    \cup UNION {Constructed(expr.xs[i]) : i \in 1..Len(expr.xs)}

SpecClauses(spec) == Range(spec.requires \o spec.matches \o spec.provides)

\* The build has gone past the binding with BindingId(id).
PastBinding(id) ==
    \/ pc \in {"callee", "constraints", "equals", "state_default", "validate",
               "done"}
    \/ pc = "bindings" /\ idx > id + 1

C6_DiscriminantInRange ==
    /\ \A e \in Enums(builder) :
          /\ \A k \in 1..Len(e.variants) : e.variants[k].discriminant = k - 1
          /\ \E i \in 1..Len(builder.assumptions) :
                IsRange(builder, builder.assumptions[i], e.discriminant,
                        Len(e.variants))
    /\ (pc = "done" /\ Evaluable(builder)) =>
          \A rho \in Models(builder) : \A e \in Enums(builder) :
              /\ 0 <= Val(builder, rho, e.discriminant)
              /\ Val(builder, rho, e.discriminant) < Len(e.variants)
    /\ \A id \in 0..(Len(expansion.bindings) - 1) :
          LET binding == expansion.bindings[id + 1]
          IN  (/\ binding.k = "Argument"
               /\ binding.bty.k = "Base"
               /\ binding.bty.ty \in DOMAIN prog.type_model
               /\ prog.type_model[binding.bty.ty].k = "Enum"
               /\ ~Positional(prog.type_model[binding.bty.ty]))
              => ~PastBinding(id)
    /\ pc = "done" =>
          \A i \in 1..Len(builder.glog) :
            \A clause \in SpecClauses(prog.term_spec[builder.glog[i].term]) :
              \A ty \in Constructed(clause) : Positional(prog.type_model[ty])

\* Built conditions with an enum of two variants allocated for an argument
\* and another built by a spec constructor, and a model of the assumptions.
C6_Witness ==
    /\ pc = "done" /\ Evaluable(builder)
    /\ Models(builder) # {}
    /\ \E e1, e2 \in Enums(builder) :
          /\ Len(e1.variants) = 2 /\ Len(e2.variants) = 2
          /\ ExprAt(builder, e1.discriminant).op = "Variable"
          /\ ExprAt(builder, e2.discriminant).op = "Const"

(***************************************************************************)
(* C7: each step of the state-default loop of build(), which runs when     *)
(* every binding and call of the expansion has been processed, adds one    *)
(* assumption for its state variable and nothing else: the state's default *)
(* spec itself when no modification condition is recorded for the state,   *)
(* and otherwise Not(OR of the recorded conditions) => default, which      *)
(* holds in a valuation exactly when a recorded condition or the default   *)
(* does.  The conditions recorded for a state are, in call order, those of *)
(* the modifies entries of the called terms' specs: the constant true for  *)
(* an unconditional entry, a fresh Bool variable for a conditional one.    *)
(***************************************************************************)
\* id is the expression the builder makes of a scalar spec expression
RECURSIVE Denotes(_, _, _, _)
Denotes(b, id, expr, env) ==
    CASE expr.k = "Var" ->
            /\ expr.name \in DOMAIN env
            /\ env[expr.name] = Scalar(id)
      [] expr.k = "Const" -> ExprAt(b, id) = ExprConst(expr.c)
      [] expr.k = "Not" ->
            /\ ExprAt(b, id).op = "Not"
            /\ Denotes(b, ExprAt(b, id).args[1], expr.xs[1], env)
      [] expr.k \in {"Eq", "Lt", "Imp", "Sub"} ->
            /\ ExprAt(b, id).op = expr.k
            /\ Denotes(b, ExprAt(b, id).args[1], expr.xs[1], env)
            /\ Denotes(b, ExprAt(b, id).args[2], expr.xs[2], env)
      [] expr.k = "Gt" ->
            /\ ExprAt(b, id).op = "Lt"
            /\ Denotes(b, ExprAt(b, id).args[1], expr.xs[2], env)
            /\ Denotes(b, ExprAt(b, id).args[2], expr.xs[1], env)
      [] OTHER -> FALSE

\* Whether each modifies entry for `name` of the calls logged from the i-th
\* on is unconditional, in order
RECURSIVE Unconditional(_, _, _, _)
Unconditional(P, glog, name, i) ==
    IF i > Len(glog) THEN <<>>
    ELSE LET mine == SelectSeq(P.term_spec[glog[i].term].modifies,
                               LAMBDA m : m.state = name)
         IN  [j \in 1..Len(mine) |-> mine[j].cond = ""]
             \o Unconditional(P, glog, name, i + 1)

RecordedConds(b, name) ==
    IF name \in DOMAIN b.state_modification_conds
    THEN b.state_modification_conds[name] ELSE <<>>

CondsRecorded(P, b) ==
    \A name \in DOMAIN b.state_modification_conds
                \cup {P.state[i].name : i \in 1..Len(P.state)} :
        LET conds == RecordedConds(b, name)
            kinds == Unconditional(P, b.glog, name, 1)
        IN  /\ Len(conds) = Len(kinds)
            /\ \A j \in 1..Len(conds) :
                  IF kinds[j]
                  THEN ExprAt(b, conds[j]) = ExprConst(ConstBool(TRUE))
                  ELSE /\ ExprAt(b, conds[j]).op = "Variable"
                       /\ b.variables[ExprAt(b, conds[j]).c[2] + 1]
                            = [ty |-> "Bool",
                               name |-> name \o "_modification_cond"]

\* a is the default assumption of `state` in the table of b
IsDefaultAssumption(b, a, state) ==
    LET conds == RecordedConds(b, state.name)
        env == MapSet(EmptyMap, state.name, b.state[state.name])
    IN  IF state.name \notin DOMAIN b.state_modification_conds
        THEN Denotes(b, a, state.default, env)
        ELSE /\ ExprAt(b, a).op = "Imp"
             /\ ExprAt(b, ExprAt(b, a).args[1]).op = "Not"
             /\ IsFold(b, "Or", FALSE,
                       ExprAt(b, ExprAt(b, a).args[1]).args[1], conds)
             /\ Denotes(b, ExprAt(b, a).args[2], state.default, env)
             /\ \A rho \in Valuations(b.variables, Len(b.variables)) :
                   Holds(b, rho, a)
                     <=> \/ \E c \in Range(conds) : Holds(b, rho, c)
                         \/ Holds(b, rho, ExprAt(b, a).args[2])

DefaultStep ==
    /\ Ok(builder) => CondsRecorded(prog, builder)
    /\ (pc = "state_default" /\ Ok(builder')) =>
          /\ \A i \in 1..Len(expansion.bindings) :
                expansion.bindings[i].k # "None" => has_value(builder, i - 1)
          /\ pc' \in {"state_default", "validate"}
          /\ builder'.glog = builder.glog
          /\ builder'.state_modification_conds = builder.state_modification_conds
          /\ builder'.assertions = builder.assertions
          /\ Len(builder'.assumptions) = Len(builder.assumptions) + 1
          /\ SubSeq(builder'.assumptions, 1, Len(builder.assumptions))
                = builder.assumptions
          /\ IsDefaultAssumption(
                builder', builder'.assumptions[Len(builder'.assumptions)],
                prog.state[idx])
    /\ (pc # "state_default" /\ pc' = "state_default") => idx' = 1
    /\ (pc = "state_default" /\ pc' = "state_default") => idx' = idx + 1
    /\ (pc = "state_default" /\ pc' = "validate") => idx = Len(prog.state)

C7_StateDefault == [][DefaultStep]_vars

\* Built conditions of a program with two state variables: one modified by a
\* call both unconditionally and under a condition, the other never, and a
\* model of the assumptions in which the default of the first is false.
C7_Witness ==
    /\ pc = "done" /\ Len(prog.state) = 2
    /\ Len(RecordedConds(builder, "flag")) >= 2
    /\ \E c \in Range(RecordedConds(builder, "flag")) :
          ExprAt(builder, c).op = "Variable"
    /\ \E c \in Range(RecordedConds(builder, "flag")) :
          ExprAt(builder, c).op = "Const"
    /\ "mode" \notin DOMAIN builder.state_modification_conds
    /\ LET n == Len(builder.assumptions)
       IN  /\ IsDefaultAssumption(builder, builder.assumptions[n - 1],
                                  prog.state[1])
           /\ IsDefaultAssumption(builder, builder.assumptions[n],
                                  prog.state[2])
           /\ \E rho \in Models(builder) :
                 ~Holds(builder, rho,
                        ExprAt(builder, builder.assumptions[n - 1]).args[2])

(***************************************************************************)
(* C8: dedup_expr is hash-consing.  In every table the builder reaches, no *)
(* expression other than a BVConvTo occurs twice and expr_map sends each   *)
(* expression to an id that holds it; adding again an expression of the    *)
(* table returns an id that already holds it and leaves the builder as it  *)
(* is, unless it is a BVConvTo, which is appended under the fresh id       *)
(* Len(exprs); and no step changes or removes an entry of the table.       *)
(***************************************************************************)
Impure(e) == e.op = "BVConvTo"

HashConsed(b) ==
    /\ \A i, j \in 1..Len(b.exprs) :
          (i # j /\ b.exprs[i] = b.exprs[j]) => Impure(b.exprs[i])
    /\ \A e \in DOMAIN b.expr_map :
          b.expr_map[e] < Len(b.exprs) /\ ExprAt(b, b.expr_map[e]) = e
    /\ \A i \in 1..Len(b.exprs) :
          LET e == b.exprs[i]
              r == dedup_expr(b, e)
          IN  IF Impure(e)
              THEN /\ r.id = Len(b.exprs)
                   /\ r.b.exprs = Append(b.exprs, e)
              ELSE /\ r.id = i - 1
                   /\ r.b = b

EntriesKept ==
    /\ Len(builder.exprs) <= Len(builder'.exprs)
    /\ SubSeq(builder'.exprs, 1, Len(builder.exprs)) = builder.exprs

C8_HashConsing == [](HashConsed(builder)) /\ [][EntriesKept]_vars

\* A table that holds the same BVConvTo under two ids, over operands that
\* were added twice and are held once.
C8_Witness ==
    \E i, j \in 1..Len(builder.exprs) :
        /\ i < j
        /\ builder.exprs[i] = builder.exprs[j]
        /\ Impure(builder.exprs[i])
        /\ ~Impure(ExprAt(builder, builder.exprs[i].args[1]))
        /\ ~Impure(ExprAt(builder, builder.exprs[i].args[2]))

(***************************************************************************)
(* C9: in the conditions from_expansion returns, every expression of the   *)
(* table that is not a variable is reachable through operand edges from an *)
(* assumption or an assertion; and when the table that build() has made    *)
(* holds a non-variable expression that is not, from_expansion returns the *)
(* error "expression is unreachable" and no conditions.                    *)
(***************************************************************************)
\* The least set of ids that holds S and the operands of its members
RECURSIVE OperandClosure(_, _)
OperandClosure(b, S) ==
    LET T == S \cup UNION {Range(ExprAt(b, x).args) : x \in S}
    IN  IF T = S THEN S ELSE OperandClosure(b, T)

Roots(b) == Range(b.assumptions) \cup Range(b.assertions)

AllReachable(b) ==
    \A x \in 0..(Len(b.exprs) - 1) :
        ExprAt(b, x).op # "Variable" => x \in OperandClosure(b, Roots(b))

RejectsUnreachable ==
    (pc = "validate" /\ ~AllReachable(builder)) =>
        /\ pc' = "error"
        /\ builder'.err = "expression is unreachable"

C9_Reachable ==
    [](pc = "done" => AllReachable(builder)) /\ [][RejectsUnreachable]_vars

\* from_expansion has returned the error for a table with a non-variable
\* expression that no root reaches.
C9_Witness ==
    /\ pc = "error"
    /\ builder.err = "expression is unreachable"
    /\ \E x \in 0..(Len(builder.exprs) - 1) :
          /\ ExprAt(builder, x).op # "Variable"
          /\ x \notin OperandClosure(builder, Roots(builder))

(***************************************************************************)
(* C10: from_expansion returns conditions only for an expansion free of    *)
(* these defects: a called term without a spec; a call whose number of     *)
(* actual arguments differs from the spec's argument count; a clause of a  *)
(* called term's spec that refers to an undefined variable, to a field a   *)
(* struct does not have or to a variant an enum does not have, or that     *)
(* expands a macro with the wrong number of arguments; a spec with matches *)
(* clauses called as a total (non-option) term.  With any of them it       *)
(* returns an error.                                                       *)
(***************************************************************************)
\* The calls build() makes: one per constructor or extractor binding, and
\* the root term's own.  `ins` / `outs` are the bindings the spec's input
\* and output names stand for (-1 where only the count is known).
BindingCall(X, id) ==
    LET binding == X.bindings[id + 1]
        inner == IF binding.bty.k = "Option" THEN binding.bty.inner
                 ELSE binding.bty
    IN  IF binding.k = "Constructor"
        THEN [term |-> binding.term, kind |-> "Constructor",
              args |-> binding.parameters, ret |-> id,
              partial |-> binding.bty.k = "Option"]
        ELSE [term |-> binding.term, kind |-> "Extractor",
              args |-> IF inner.k = "Tuple"
                       THEN [j \in 1..Len(inner.inners) |-> 0 - 1]
                       ELSE <<0 - 1>>,
              ret |-> binding.parameter,
              partial |-> binding.bty.k = "Option"]

ExpansionCalls(X) ==
    {BindingCall(X, i - 1) :
        i \in {j \in 1..Len(X.bindings) :
                  X.bindings[j].k \in {"Constructor", "Extractor"}}}
    \cup {[term |-> X.term, kind |-> "Constructor", args |-> X.parameters,
           ret |-> X.result,
           partial |-> X.bindings[X.result + 1].bty.k = "Option"]}

\* What a name in scope stands for: a macro of `arity` parameters
\* (-1: a value) and, for a value of an enum type, that type.
Value(enum) == [arity |-> 0 - 1, enum |-> enum]
EnumTypeOf(P, X, id) ==
    IF id < 0 \/ id + 1 > Len(X.bindings) \/ X.bindings[id + 1].k = "None"
    THEN ""
    ELSE LET bty == X.bindings[id + 1].bty
             inner == IF bty.k = "Option" THEN bty.inner ELSE bty
         IN  IF /\ inner.k = "Base"
                /\ inner.ty \in DOMAIN P.type_model
                /\ P.type_model[inner.ty].k = "Enum"
             THEN inner.ty ELSE ""

VariantNamesOf(P, ty) ==
    {P.type_model[ty].variants[k].name : k \in 1..Len(P.type_model[ty].variants)}
IsEnumType(P, ty) ==
    ty \in P.types /\ ty \in DOMAIN P.type_model /\ P.type_model[ty].k = "Enum"

Bound(def) ==
    IF def.k = "Macro" THEN [arity |-> Len(def.names), enum |-> ""]
    ELSE Value(IF def.k = "Enum" THEN def.name ELSE "")

\* The enum type of an operand, "" when it is not known to be an enum
EnumOf(x, env) ==
    IF x.k = "Enum" THEN x.name
    ELSE IF x.k = "Var" /\ x.name \in DOMAIN env THEN env[x.name].enum
    ELSE ""

\* A spec expression has one of the defects where it is evaluated: outside
\* the bodies of macro definitions.
RECURSIVE Defective(_, _, _), LetDefective(_, _, _, _)
Defective(P, expr, env) ==
    CASE expr.k = "Var" -> expr.name \notin DOMAIN env
      [] expr.k \in {"Const", "Macro"} -> FALSE
      [] expr.k = "Let" -> LetDefective(P, expr, env, 1)
      [] expr.k = "Expand" ->
            \/ /\ expr.name \in DOMAIN env
               /\ env[expr.name].arity >= 0
               /\ env[expr.name].arity # Len(expr.xs)
            \/ /\ expr.name \notin DOMAIN env
               /\ expr.name \in DOMAIN P.macros
               /\ Len(P.macros[expr.name].params) # Len(expr.xs)
            \/ \E i \in 1..Len(expr.xs) : Defective(P, expr.xs[i], env)
      [] expr.k = "Field" ->
            \/ expr.xs[1].k = "Struct" /\ expr.name \notin Range(expr.xs[1].names)
            \/ Defective(P, expr.xs[1], env)
      [] expr.k = "Discriminator" ->
            \/ /\ IsEnumType(P, EnumOf(expr.xs[1], env))
               /\ expr.name \notin VariantNamesOf(P, EnumOf(expr.xs[1], env))
            \/ Defective(P, expr.xs[1], env)
      [] expr.k = "Enum" ->
            \/ /\ IsEnumType(P, expr.name)
               /\ expr.names[1] \notin VariantNamesOf(P, expr.name)
            \/ \E i \in 1..Len(expr.xs) : Defective(P, expr.xs[i], env)
      [] OTHER -> \E i \in 1..Len(expr.xs) : Defective(P, expr.xs[i], env)

LetDefective(P, expr, env, i) ==
    IF i > Len(expr.names) THEN Defective(P, expr.xs[i], env)
    ELSE \/ Defective(P, expr.xs[i], env)
         \/ LetDefective(P, expr, MapSet(env, expr.names[i], Bound(expr.xs[i])),
                         i + 1)

\* The scope that names give the bindings ids
EnvOf(P, X, names, ids) ==
    [n \in {names[i] : i \in 1..Len(names)} |->
        Value(EnumTypeOf(P, X, ids[CHOOSE i \in 1..Len(names) : names[i] = n]))]

CallDefective(P, X, c) ==
    IF c.term \notin DOMAIN P.term_spec THEN TRUE
    ELSE
    LET spec == P.term_spec[c.term]
    IN  IF Len(spec.args) # Len(c.args) THEN TRUE
        ELSE
        LET state_env ==
                [n \in {P.state[i].name : i \in 1..Len(P.state)}
                        \cup {spec.modifies[i].cond : i \in 1..Len(spec.modifies)}
                    |-> Value("")]
            args_env == EnvOf(P, X, spec.args, c.args)
            ret_env == EnvOf(P, X, <<spec.ret>>, <<c.ret>>)
            ins == (IF c.kind = "Constructor" THEN args_env ELSE ret_env)
                   @@ state_env
            outs == (IF c.kind = "Constructor" THEN ret_env ELSE args_env)
                    @@ ins
        IN  \/ ~c.partial /\ spec.matches # <<>>
            \/ \E clause \in Range(spec.requires \o spec.matches) :
                  Defective(P, clause, ins)
            \/ \E clause \in Range(spec.provides) : Defective(P, clause, outs)

C10_DefectsRejected ==
    pc = "done" =>
        \A c \in ExpansionCalls(expansion) : ~CallDefective(prog, expansion, c)

\* from_expansion has returned the macro arity error for an expansion that
\* calls a term whose spec expands a macro with the wrong argument count.
C10_Witness ==
    /\ pc = "error"
    /\ builder.err = "incorrect number of arguments for macro"
    /\ \E c \in ExpansionCalls(expansion) :
          /\ c.term \in DOMAIN prog.term_spec
          /\ \E clause \in SpecClauses(prog.term_spec[c.term]) :
                /\ clause.k = "Lt"
                /\ clause.xs[1].k = "Expand"
                /\ clause.xs[1].name \in DOMAIN prog.macros
                /\ Len(prog.macros[clause.xs[1].name].params)
                     # Len(clause.xs[1].xs)

(***************************************************************************)
(* C4.  check_verification_condition asserts                               *)
(* not(AND(assumptions) => AND(assertions)) and maps the answer: unsat     *)
(* gives Verification::Success, unknown gives Verification::Unknown, and   *)
(* sat gives Verification::Failure with a model that maps every expression *)
(* id of the conditions to a constant, read before the frame is popped.    *)
(* The check has returned when the runner is past it: at its match, or     *)
(* returned itself.                                                        *)
(***************************************************************************)
VerificationReturned ==
    /\ Len(smt.answers) = 2
    /\ rpc \in {"v_match", "reported", "failed"}

ModelRead(i) == smt.sent[i] = "get_value"

C4_VerificationMapping ==
    /\ Len(smt.asserted) >= 2 =>
          /\ smt.asserted[2].k = "not_imp"
          /\ smt.asserted[2].xs = builder.assumptions
          /\ smt.asserted[2].ys = builder.assertions
    /\ VerificationReturned =>
          /\ smt.answers[2] = "unsat" => run.verification = "success"
          /\ smt.answers[2] = "unknown" =>
                run.verification = "unknown" /\ run.err = ""
          /\ smt.answers[2] = "sat" =>
                /\ run.verification = "failure"
                /\ DOMAIN run.model = 0..(Len(builder.exprs) - 1)
                /\ \E i \in 1..Len(smt.sent) :
                      /\ ModelRead(i)
                      /\ smt.sent[i - 1] = "check"
                      /\ \A j \in 1..i : smt.sent[j] = "pop" => j < i - 2

\* The solver answered sat with a model in which an Int expression is
\* negative: the check returned an Err, with its frame still pushed.
C4_Witness ==
    /\ VerificationReturned
    /\ smt.answers[2] = "sat"
    /\ rpc = "failed"
    /\ run.verification = ""
    /\ Len(smt.frames) = 2

(***************************************************************************)
(* C5.  The applicability check asserts the conjunction of all assumptions *)
(* and maps unsat to Inapplicable and sat to Applicable.  The runner sends *)
(* the verification check only after Applicable: on Inapplicable it        *)
(* reports verdict inapplicable with no verify time, on Unknown it fails   *)
(* with an error, and in both the solver has received the one check only.  *)
(***************************************************************************)
Checks == {i \in 1..Len(smt.sent) : smt.sent[i] = "check"}

ApplicabilityReturned ==
    /\ Len(smt.answers) >= 1
    /\ rpc \notin {"f_pop", "f_match"}

C5_ApplicabilityGatesVerification ==
    /\ Len(smt.asserted) >= 1 =>
          /\ smt.asserted[1].k = "and"
          /\ smt.asserted[1].xs = builder.assumptions
    /\ Len(smt.answers) >= 1 =>
          /\ smt.answers[1] = "unsat" => run.applicability = "inapplicable"
          /\ smt.answers[1] = "sat" => run.applicability = "applicable"
          /\ smt.answers[1] = "unknown" => run.applicability = "unknown"
    /\ (Len(smt.asserted) >= 2 \/ Cardinality(Checks) >= 2 \/ Len(smt.frames) > 1
          \/ rpc \in {"v_push", "v_assert", "v_check", "v_model", "v_pop", "v_match"})
         /\ Len(smt.answers) >= 1 /\ rpc # "f_pop"
       => run.applicability = "applicable"
    /\ ApplicabilityReturned /\ run.applicability = "inapplicable" =>
          /\ rpc = "reported"
          /\ run.verdict = "inapplicable"
          /\ run.verify_time = "None"
          /\ run.err = ""
          /\ Len(smt.asserted) = 1
          /\ Cardinality(Checks) = 1
    /\ ApplicabilityReturned /\ run.applicability = "unknown" =>
          /\ rpc = "failed"
          /\ run.err = "could not prove applicability"
          /\ run.verdict = ""
          /\ Len(smt.asserted) = 1
          /\ Cardinality(Checks) = 1

C5_Witness ==
    /\ rpc = "reported"
    /\ run.applicability = "inapplicable"
    /\ run.verdict = "inapplicable"
    /\ smt.answers = <<"unsat">>
    /\ builder.assumptions # <<>>

(***************************************************************************)
(* C11.  report.json has been written on every path by which Runner::run   *)
(* returns, the paths on which verifying an expansion returned an error    *)
(* included.                                                               *)
(***************************************************************************)
Returned == exec.pc = "returned"

ReportFile == Write(open_log_file(cfg.log_dir, "report.json"), 0, 0)

C11_ReportAlwaysWritten ==
    Returned => exec.report_written /\ ReportFile \in exec.writes

\* run has returned the error of a failed verification, and no report
C11_Witness ==
    /\ Returned
    /\ exec.result = "Err"
    /\ \E i \in 1..Len(exec.work) :
          exec.work[i].pc = "failed" /\ exec.work[i].err = "verification failed"
    /\ ~exec.report_written
    /\ ReportFile \notin exec.writes

(***************************************************************************)
(* C12.  In the loop over the type-inference solutions of an expansion, an *)
(* Inapplicable solution is counted in failed_type_inference and skipped   *)
(* with no solver started, and the solutions after it are processed;       *)
(* Underconstrained and TypeError make verify_expansion return an error,   *)
(* which makes run return an error; only Solved solutions get a solver.    *)
(***************************************************************************)
Count(solutions, n, status) ==
    Cardinality({k \in 1..n : solutions[k].status = status})

InLoop(w) == w.pc \in {"solution", "spawn", "verify", "done"}

SolversOf(i) == {p \in exec.procs : p.worker = i}

C12_SolutionStatuses ==
    \A i \in 1..Len(exec.work) :
        LET w == exec.work[i]
            solutions == cfg.expansions[i].solutions
        IN  /\ \A p \in SolversOf(i) : solutions[p.sol].status = "Solved"
            /\ InLoop(w) =>
                  /\ \A k \in 1..(w.j - 1) :
                        solutions[k].status \in {"Solved", "Inapplicable"}
                  /\ w.failed_type_inference =
                        Count(solutions, w.j - 1, "Inapplicable")
                  /\ ~cfg.skip_solver =>
                        {p.sol : p \in SolversOf(i)} =
                            {k \in 1..Len(solutions) :
                                /\ solutions[k].status = "Solved"
                                /\ k < w.j \/ (k = w.j /\ w.pc = "verify")}
            /\ w.pc = "done" => w.j = Len(solutions) + 1
            /\ w.pc = "failed" /\ w.err = "type inference" =>
                  /\ solutions[w.j].status \in {"Underconstrained", "TypeError"}
                  /\ \A p \in SolversOf(i) : p.sol < w.j
            /\ w.pc = "failed" /\ Returned =>
                  exec.result = "Err" /\ ~exec.report_written
            /\ w.pc = "failed" => exec.pc \in {"map", "returned"}

\* An expansion is done whose Inapplicable solution was counted and
\* followed by a solution that got a solver.
C12_Witness ==
    \E i \in 1..Len(exec.work) :
        /\ exec.work[i].pc = "done"
        /\ exec.work[i].failed_type_inference = 1
        /\ cfg.expansions[i].solutions[1].status = "Inapplicable"
        /\ \E p \in SolversOf(i) : p.sol = 2

(***************************************************************************)
(* C13.  Every (expansion, type instantiation) pair verified in a run has  *)
(* a solver process of its own and a solver.smt2 replay file of its own,   *)
(* and no file is written by the closures of two expansions: results.out   *)
(* is one file per expansion, written by all its instantiations in turn.   *)
(* Only the standard output may be written by several closures.            *)
(***************************************************************************)
IsFile(path, name) == path[Len(path)] = Name(name)

C13_OwnResources ==
    /\ \A p, q \in exec.procs :
          p.pid = q.pid \/ (p.worker = q.worker /\ p.sol = q.sol) => p = q
    /\ \A a, b \in exec.writes :
          a.path = b.path /\ a.path # Stdout =>
              /\ a.worker = b.worker
              /\ IsFile(a.path, "solver.smt2") => a.sol = b.sol
    /\ \A a \in exec.writes :
          /\ IsFile(a.path, "solver.smt2") =>
                \E p \in exec.procs : p.worker = a.worker /\ p.sol = a.sol
          /\ cfg.results_to_log_dir /\ a.path = Stdout =>
                \/ cfg.skip_solver
                \/ exec.work[a.worker].err = "verification failed"

\* Two solver processes of two expansions are alive at once, each with its
\* replay file, and each expansion has written to its results.out.
C13_Witness ==
    \E p, q \in exec.procs :
        /\ p.worker # q.worker
        /\ p.alive /\ q.alive
        /\ p.pid # q.pid
        /\ \E a, b \in exec.writes :
              /\ a.worker = p.worker /\ b.worker = q.worker
              /\ IsFile(a.path, "results.out") /\ IsFile(b.path, "results.out")
              /\ a.path # b.path

\* As stated: no output is written by two closures.
C13_NoSharedOutput ==
    \A a, b \in exec.writes : a.path = b.path => a.worker = b.worker

(***************************************************************************)
(* C14.  select_solver_backend returns the backend of the first solver     *)
(* rule, in the order of the list, whose predicate holds for the           *)
(* expansion, and the default backend when no predicate holds, provided    *)
(* that no predicate evaluated on the way fails; it returns the error of   *)
(* the first predicate that fails before any rule holds.                   *)
(***************************************************************************)
RuleHolds(i, k) ==
    eval_predicate(cfg.solver_rules[k].predicate, cfg.expansions[i])

\* The rules that hold, in the sense that their predicates evaluate to true
Matching(i) == {k \in 1..Len(cfg.solver_rules) : RuleHolds(i, k) = "true"}

FirstOf(S) == CHOOSE k \in S : \A m \in S : k <= m

\* The rules evaluated before rule k all gave false
Reached(i, k) == \A m \in 1..(k - 1) : RuleHolds(i, m) = "false"

Selected(w) ==
    \/ InLoop(w)
    \/ w.pc = "failed" /\ w.err \notin {"filter", "description", "conditions"}

C14_FirstMatchWins ==
    \A i \in 1..Len(exec.work) :
        LET w == exec.work[i]
        IN  Selected(w) =>
              /\ w.err # "solver rule" =>
                    /\ \A k \in Matching(i) :
                          Reached(i, k) =>
                              w.backend = cfg.solver_rules[k].solver_backend
                    /\ (\A k \in 1..Len(cfg.solver_rules) :
                            RuleHolds(i, k) = "false") =>
                          w.backend = cfg.default_solver_backend
                    /\ \/ \E k \in Matching(i) : Reached(i, k)
                       \/ Reached(i, Len(cfg.solver_rules) + 1)
              /\ w.err = "solver rule" <=>
                    \E k \in 1..Len(cfg.solver_rules) :
                        RuleHolds(i, k) = "err" /\ Reached(i, k)

\* The first of two matching rules gave the backend, the later one and the
\* default being different.
C14_Witness ==
    \E i \in 1..Len(exec.work) :
        /\ InLoop(exec.work[i])
        /\ Cardinality(Matching(i)) >= 2
        /\ exec.work[i].backend = cfg.solver_rules[FirstOf(Matching(i))].solver_backend
        /\ \E k \in Matching(i) :
              cfg.solver_rules[k].solver_backend # exec.work[i].backend

\* As stated: the backend is that of the first rule whose predicate holds,
\* or the default when none holds.
C14_FirstHoldingRule ==
    \A i \in 1..Len(exec.work) :
        Selected(exec.work[i]) =>
            exec.work[i].backend =
                IF Matching(i) = {} THEN cfg.default_solver_backend
                ELSE cfg.solver_rules[FirstOf(Matching(i))].solver_backend


(***************************************************************************)
(* Rotations.                                                              *)
(***************************************************************************)
BitAt(x, i) == (x \div Pow2(i)) % 2

RECURSIVE Sum(_, _)
Sum(f, n) == IF n = 0 THEN 0 ELSE f[n - 1] + Sum(f, n - 1)

\* x of width w with every bit moved r places to the left / to the right,
\* around the ends
RotatedLeft(w, x, r) ==
    Sum([i \in 0..(w - 1) |-> BitAt(x, (i + w - r) % w) * Pow2(i)], w)
RotatedRight(w, x, r) ==
    Sum([i \in 0..(w - 1) |-> BitAt(x, (i + r) % w) * Pow2(i)], w)

\* (x << r) | (x >> (w - r)) on w bits, a shift by w giving 0
ShiftedLeft(w, x, r) ==
    BitOp("or", IF r >= w THEN 0 ELSE (x * Pow2(r)) % Pow2(w),
                IF w - r >= w THEN 0 ELSE x \div Pow2(w - r), w)

\* C15: the term encode_rotate builds for a width w and values x, k below
\* 2^w is well sorted and evaluates to x rotated by k mod w places, to the
\* left for Left (which is (x << (k mod w)) | (x >> (w - k mod w)) on w
\* bits) and to the right for Right; it is x when k mod w = 0.
C15_RotateByAmountModWidth ==
    (calc.op = "rotate" /\ calc.out # <<>>) =>
        LET d == calc.args[1]
            w == calc.args[2]
            x == calc.args[3]
            r == calc.args[4] % w
        IN  /\ calc.out[1]
            /\ calc.out[2] = BV(w, IF d = "Left" THEN RotatedLeft(w, x, r)
                                                 ELSE RotatedRight(w, x, r))
            /\ d = "Left" => calc.out[2].v = ShiftedLeft(w, x, r)
            /\ r = 0 => calc.out[2].v = x

\* A rotation to the left by an amount above the width that is no multiple
\* of it, of a value that the rotation changes
C15_Witness ==
    /\ calc.op = "rotate" /\ calc.out # <<>>
    /\ calc.args[1] = "Left"
    /\ calc.args[2] = 3
    /\ calc.args[4] = 5
    /\ calc.args[3] = 3
    /\ calc.out[2] = BV(3, 5)


(***************************************************************************)
(* Constants through the solver and back.                                  *)
(***************************************************************************)
Encoded == calc.op = "constant" /\ calc.out # <<>>

\* C16: a constant that is a Boolean, an integer of either sign or a
\* bit-vector, encoded by Solver::constant, comes back from the solver as
\* a literal that const_from_sexpr decodes to the same constant, a
\* bit-vector with its width, from binary and from hexadecimal digits; and
\* the literal Display writes for the constant decodes to it as well.
C16_ConstantRoundTrip ==
    Encoded =>
        /\ calc.out[1].decoded = Decoded(calc.args[1])
        /\ const_from_sexpr(display(calc.args[1])) = Decoded(calc.args[1])

\* A negative integer was encoded, the solver printed it as (- n), and
\* nothing was decoded.
C16_Witness ==
    /\ Encoded
    /\ calc.args[1] = ConstInt(0 - 1)
    /\ calc.out[1].echo = SList(<<Atom("-"), Numeral(1)>>)
    /\ ~calc.out[1].decoded.ok

\* What does come back: the Booleans, the integers from 0 and the
\* bit-vectors, 0xFF of width 8 from #xff and from #b11111111.
C16_UnsignedRoundTrip ==
    (Encoded /\ (calc.args[1][1] = "Int" => calc.args[1][2] >= 0)) =>
        /\ calc.out[1].decoded = Decoded(calc.args[1])
        /\ const_from_sexpr(display(calc.args[1])) = Decoded(calc.args[1])
        /\ calc.args[1][1] = "BitVector" =>
              /\ calc.out[1].echo.sym = "#x" => calc.args[1][2] % 4 = 0
              /\ calc.out[1].decoded.c[2] = calc.args[1][2]


(***************************************************************************)
(* The encoded intrinsics.                                                 *)
(***************************************************************************)
\* The zero bits of x above its highest one bit, of w bits
RECURSIVE LeadingZeros(_, _)
LeadingZeros(w, x) ==
    IF w = 0 \/ BitAt(x, w - 1) = 1 THEN 0 ELSE 1 + LeadingZeros(w - 1, x)

\* C17: what clz8 (clz1) declares and asserts for an operand of 8 bits
\* (1 bit) is accepted by the solver and leaves the returned constant one
\* value, the number of leading zero bits of the operand; that is the
\* width for the operand 0.
C17_ClzDetermined ==
    (calc.op = "Clz" /\ calc.out # <<>>) =>
        LET w == calc.args[1]
            x == calc.args[2]
        IN  /\ calc.out[1]
            /\ calc.out[2] = {BV(w, LeadingZeros(w, x))}
            /\ x = 0 => calc.out[2] = {BV(w, w)}

\* clz8 of 0 is 8 and of 00010111 is 3; clz1 of 0 is 1.
C17_Witness ==
    /\ calc.op = "Clz" /\ calc.out # <<>>
    /\ \/ calc.args = <<8, 0>> /\ calc.out[2] = {BV(8, 8)}
       \/ calc.args = <<8, 23>> /\ calc.out[2] = {BV(8, 3)}
       \/ calc.args = <<1, 0>> /\ calc.out[2] = {BV(1, 1)}

\* x of w bits with its bits in the opposite order
Reversed(w, x) == Sum([i \in 0..(w - 1) |-> BitAt(x, w - 1 - i) * Pow2(i)], w)

\* C18: what rev8 (rev1) declares and asserts for an operand of 8 bits
\* (1 bit) is accepted by the solver and leaves the returned constant one
\* value, whose bit i is the bit w-1-i of the operand; the encoding of
\* the encoded value is the operand again.
C18_RevDetermined ==
    (calc.op = "Rev" /\ calc.out # <<>>) =>
        LET w == calc.args[1]
            x == calc.args[2]
        IN  /\ calc.out[1]
            /\ calc.out[2] = {BV(w, Reversed(w, x))}
            /\ \A r \in calc.out[2] : \A i \in 0..(w - 1) :
                  BitAt(r.v, i) = BitAt(x, w - 1 - i)
            /\ calc.out[3]
            /\ calc.out[4] = {BV(w, x)}

\* rev8 of 00010111 is 11101000, and rev8 of that is 00010111.
C18_Witness ==
    /\ calc.op = "Rev" /\ calc.out # <<>>
    /\ calc.args = <<8, 23>>
    /\ calc.out[2] = {BV(8, 232)}
    /\ calc.out[4] = {BV(8, 23)}


Dispatched == calc.op = "expr_to_smt" /\ calc.out # <<>>

\* C19: for Clz, Rev, Popcnt and Cls on an operand of the width 1, 8, 16,
\* 32 or 64, expr_to_smt selects an encoding and does not abort.
C19_EncodingForEveryWidth ==
    (Dispatched /\ calc.args[2] \in {1, 8, 16, 32, 64}) =>
        calc.out[1] # Unimplemented

\* Cls on an operand of one bit reached unimplemented!.
C19_Witness ==
    /\ Dispatched
    /\ calc.args = <<"Cls", 1>>
    /\ calc.out[1] = Unimplemented

\* What is encoded: Clz and Rev for the five widths, Cls and Popcnt for
\* 8, 16, 32 and 64, each by the encoder of its name and width.
C19_EncodedWidths ==
    Dispatched =>
        LET op == calc.args[1]
            w == calc.args[2]
        IN  (calc.out[1] # Unimplemented) <=>
                \/ op \in {"Clz", "Rev"} /\ w \in {1, 8, 16, 32, 64}
                \/ op \in {"Cls", "Popcnt"} /\ w \in {8, 16, 32, 64}


(***************************************************************************)
(* The orders of the widths and of the types.                              *)
(***************************************************************************)
Compared == calc.op \in {"Width", "Type"} /\ calc.out # <<>>
AtMost(c) == c \in {"Less", "Equal"}
Opposite(c) ==
    CASE c = "Less" -> "Greater" [] c = "Greater" -> "Less" [] OTHER -> c

\* C20: partial_cmp of Width and of Type is a partial order on the three
\* widths and the eight types: every value is Equal to itself, the result
\* is Equal exactly for two values that are ==, a <= b and b <= a only for
\* a == b, the comparison of b with a is the opposite of that of a with b,
\* and a <= b and b <= c give a <= c (strictly when one of them is
\* strict).  Unknown is Less than every type but itself and Unspecified,
\* BitVector(Unknown) is Less than every BitVector(Bits(n)), and
\* Unspecified is comparable with itself only.
C20_PartialOrders ==
    Compared =>
        LET a == calc.args[1]
            b == calc.args[2]
            o == calc.out[1]
        IN  /\ o.aa = "Equal"
            /\ (o.ab = "Equal") <=> (a = b)
            /\ (AtMost(o.ab) /\ AtMost(o.ba)) => a = b
            /\ o.ba = Opposite(o.ab)
            /\ (AtMost(o.ab) /\ AtMost(o.bc)) => AtMost(o.ac)
            /\ (AtMost(o.ab) /\ AtMost(o.bc) /\ "Less" \in {o.ab, o.bc})
                  => o.ac = "Less"
            /\ calc.op = "Type" =>
                  /\ (a.type = "Unknown" /\ b.type \notin {"Unknown", "Unspecified"})
                        => o.ab = "Less"
                  /\ (a = TypeBitVector(WidthUnknown) /\ b.type = "BitVector"
                        /\ b.w.width = "Bits") => o.ab = "Less"
                  /\ (a.type = "Unspecified" /\ b # a) => o.ab = "None"
                  /\ (b.type = "Unspecified" /\ b # a) => o.ab = "None"
            /\ (calc.op = "Width" /\ a.width = "Unknown" /\ b.width = "Bits")
                  => o.ab = "Less"

\* Unknown < BitVector(Unknown) < BitVector(Bits(64)) was compared, and so
\* were two bit-vector types of different known widths.
C20_Witness ==
    /\ Compared
    /\ \/ /\ calc.args = <<TypeOf("Unknown"), TypeBitVector(WidthUnknown),
                            TypeBitVector(WidthBits(64))>>
          /\ calc.out[1].ab = "Less" /\ calc.out[1].bc = "Less"
          /\ calc.out[1].ac = "Less"
       \/ /\ calc.args[1] = TypeBitVector(WidthBits(32))
          /\ calc.args[2] = TypeBitVector(WidthBits(64))
          /\ calc.out[1].ab = "None"


(***************************************************************************)
(* Symbolic values of the wrong shape.                                     *)
(***************************************************************************)
\* The messages of the panics (expect, unwrap, index out of range), which
\* end the process and are no Err
Panics ==
    {"panic: target of some constraint should be an option",
     "panic: binding has no value",
     "panic: parameter binding should be defined",
     "panic: source binding should be defined",
     "panic: field mismatch", "panic: variant count mismatch",
     "panic: tuple length mismatch", "panic: todo values equal",
     "panic: variant name mismatch", "panic: variant argument count"}

IsErr(b) == ~Ok(b) /\ b.err \notin Panics

\* The builder as it is, with no error yet
Running == [builder EXCEPT !.err = ""]

\* The symbolic values the builder holds for bindings and state
HeldValues ==
    {builder.binding_value[id] : id \in DOMAIN builder.binding_value}
    \cup {builder.state[n] : n \in DOMAIN builder.state}

StagesRun == [i \in 1..Len(calc.out) |-> calc.out[i].stage]
StageOrder == <<"type_env", "term_env", "overlap", "codegen">>
IsPrefix(s, t) == Len(s) <= Len(t) /\ SubSeq(t, 1, Len(s)) = s

\* The errors of the first stage that fails, <<>> when none does
FirstErrors ==
    IF calc.args[1] # <<>> THEN calc.args[1]
    ELSE IF calc.args[2] # <<>> THEN calc.args[2]
    ELSE calc.args[3]

\* C22: compile runs the type environment, the term environment and the
\* overlap check in that order; when one of them fails compile returns Err
\* with the errors of that stage and no later stage has run; the code
\* generator has run only after the three succeeded, and then compile
\* returns Ok.
C22_NoPartialOutput ==
    calc.op = "compile" =>
        LET done == CompileReturned(calc.out)
            stages == IF done THEN SubSeq(StagesRun, 1, Len(calc.out) - 1)
                      ELSE StagesRun
            last == calc.out[Len(calc.out)]
        IN  /\ IsPrefix(stages, StageOrder)
            /\ \A i \in 1..Len(stages) : \A j \in 1..3 :
                  (j < i) => calc.args[j] = <<>>
            /\ done =>
                  /\ (last.stage = "Ok") <=> (FirstErrors = <<>>)
                  /\ last.stage = "Ok" => stages = StageOrder
                  /\ last.stage = "Err" =>
                        /\ last.errs = FirstErrors
                        /\ "codegen" \notin Range(stages)
                        /\ calc.args[Len(stages)] = last.errs
            /\ (~done /\ Len(stages) <= 3) =>
                  \A j \in 1..Len(stages) : calc.args[j] = <<>>

\* The term environment failed with two errors after the type environment
\* succeeded: compile returned them, and neither the overlap check nor
\* the code generator ran.
C22_Witness ==
    /\ calc.op = "compile"
    /\ calc.args[1] = <<>> /\ calc.args[2] = <<2, 1>> /\ calc.args[3] = <<1>>
    /\ StagesRun = <<"type_env", "term_env", "Err">>
    /\ calc.out[3].errs = <<2, 1>>


(***************************************************************************)
(* The order in which bindings are added.                                  *)
(***************************************************************************)
DefinedBindings(X) ==
    {i - 1 : i \in {i \in 1..Len(X.bindings) : X.bindings[i].k # "None"}}

SourcesOf(X, id) == Range(Binding_sources(X.bindings[id + 1]))

\* The bindings that id depends on through at most n steps
RECURSIVE Dependencies(_, _, _)
Dependencies(X, ids, n) ==
    IF n = 0 THEN {}
    ELSE LET direct == UNION {SourcesOf(X, id) : id \in ids \cap DefinedBindings(X)}
         IN  direct \cup Dependencies(X, direct, n - 1)

Acyclic(X) ==
    \A id \in DefinedBindings(X) : id \notin Dependencies(X, {id}, Len(X.bindings))

EventsOf(ev) ==
    {p \in 1..Len(builder.blog) : builder.blog[p].ev = ev}

BindingsAdded ==
    /\ Ok(builder)
    /\ pc \in {"callee", "constraints", "equals", "state_default", "validate", "done"}

RECURSIVE Plain(_)
Plain(expr) ==
    \/ expr.k \in {"Var", "Const"}
    \/ /\ expr.k \in {"Not", "Eq", "Lt", "Gt", "Imp", "Sub"}
       /\ \A i \in 1..Len(expr.xs) : Plain(expr.xs[i])

\* The variables a plain clause names
RECURSIVE NamesOf(_)
NamesOf(expr) ==
    IF expr.k = "Var" THEN {expr.name}
    ELSE UNION {NamesOf(expr.xs[i]) : i \in 1..Len(expr.xs)}

Zip(names, values) ==
    [n \in Range(names) |->
        values[CHOOSE i \in 1..Len(names) : names[i] = n]]

\* The recorded instantiations of terms that have a spec, which are those
\* call records: the others are of the variant terms of enum arguments.
TermCalls(b, P) == SelectSeq(b.calls, LAMBDA c : c.term \in DOMAIN P.term_spec)

\* The scope of the i-th logged call of b: the inputs by term kind over the
\* state variables, and with `provided` the outputs over those.
ScopeOf(b, P, i, provided) ==
    LET spec == P.term_spec[b.glog[i].term]
        arguments == Zip(spec.args, TermCalls(b, P)[i].args)
        result == Zip(<<spec.ret>>, <<TermCalls(b, P)[i].ret>>)
        ins == IF b.glog[i].kind = "Constructor" THEN arguments ELSE result
        outs == IF b.glog[i].kind = "Constructor" THEN result ELSE arguments
    IN  IF provided THEN outs @@ ins @@ b.state ELSE ins @@ b.state

\* Each id is the expression of its clause in the scope env, for the plain
\* clauses whose names are all in the scope
ClausesDenote(b, ids, clauses, env) ==
    /\ Len(ids) = Len(clauses)
    /\ \A j \in 1..Len(clauses) :
          (Plain(clauses[j]) /\ NamesOf(clauses[j]) \subseteq DOMAIN env)
              => Denotes(b, ids[j], clauses[j], env)

\* The actual values of the i-th logged call of b are those of a binding of
\* the expansion X, or of its root term
ActualsOf(b, P, X, i) ==
    LET c == TermCalls(b, P)[i]
    IN  IF b.glog[i].kind = "Extractor"
        THEN \E id \in 0..(Len(X.bindings) - 1) :
                /\ X.bindings[id + 1].k = "Extractor"
                /\ X.bindings[id + 1].term = c.term
                /\ has_value(b, id)
                /\ has_value(b, X.bindings[id + 1].parameter)
                /\ c.ret = b.binding_value[X.bindings[id + 1].parameter]
                /\ c.args = elements(
                       IF b.binding_value[id].k = "Option"
                       THEN b.binding_value[id].inner
                       ELSE b.binding_value[id])
        ELSE \E site \in ExpansionCalls(X) :
                /\ site.kind = "Constructor" /\ site.term = c.term
                /\ \A k \in 1..Len(site.args) : has_value(b, site.args[k])
                /\ c.args = [k \in 1..Len(site.args) |->
                                b.binding_value[site.args[k]]]
                /\ has_value(b, site.ret)
                /\ c.ret = IF b.binding_value[site.ret].k = "Option"
                           THEN b.binding_value[site.ret].inner
                           ELSE b.binding_value[site.ret]

RolesByKind(b, P, X) ==
    /\ Len(TermCalls(b, P)) = Len(b.glog)
    /\ \A i \in 1..Len(b.glog) :
          LET spec == P.term_spec[b.glog[i].term]
          IN  /\ TermCalls(b, P)[i].term = b.glog[i].term
              /\ ActualsOf(b, P, X, i)
              /\ ClausesDenote(b, b.glog[i].requires, spec.requires,
                               ScopeOf(b, P, i, FALSE))
              /\ ClausesDenote(b, b.glog[i].matches, spec.matches,
                               ScopeOf(b, P, i, FALSE))
              /\ ClausesDenote(b, b.glog[i].provides, spec.provides,
                               ScopeOf(b, P, i, TRUE))
              /\ \A clause \in Range(spec.requires \o spec.matches) :
                    Plain(clause) =>
                        NamesOf(clause) \subseteq
                            DOMAIN ScopeOf(b, P, i, FALSE)

\* A binding type whose values are scalars, or options or tuples of scalars
ScalarType(P, bty) ==
    /\ bty.k = "Base"
    /\ bty.ty \in DOMAIN P.type_model
    /\ P.type_model[bty.ty].k = "Primitive"

ScalarShaped(P, bty) ==
    LET inner == IF bty.k = "Option" THEN bty.inner ELSE bty
    IN  IF inner.k = "Tuple"
        THEN \A k \in 1..Len(inner.inners) : ScalarType(P, inner.inners[k])
        ELSE ScalarType(P, inner)

\* The binding with BindingId(id) of X is a call of a term whose spec has
\* plain clauses over its own names, with nothing else to stop the call:
\* the actual parameters are scalar bindings that have their values, the
\* spec has as many arguments as the call, no modifies entry, no name twice
\* nor the name of a state variable, and matches clauses only if partial.
PlainCall(P, X, id) ==
    LET site == BindingCall(X, id)
        spec == P.term_spec[site.term]
        names == spec.args \o <<spec.ret>>
        actuals == IF site.kind = "Constructor" THEN Range(site.args)
                   ELSE {site.ret}
    IN  /\ site.term \in DOMAIN P.term_spec
        /\ Len(spec.args) = Len(site.args)
        /\ spec.modifies = <<>>
        /\ ScalarShaped(P, X.bindings[id + 1].bty)
        /\ \A src \in actuals :
              /\ src >= 0 /\ src < id
              /\ X.bindings[src + 1].k # "None"
              /\ ScalarType(P, X.bindings[src + 1].bty)
              /\ has_value(builder, src)
        /\ \A i, j \in 1..Len(names) : names[i] = names[j] => i = j
        /\ \A i \in 1..Len(P.state) : P.state[i].name \notin Range(names)
        /\ ~site.partial => spec.matches = <<>>
        /\ \A clause \in SpecClauses(spec) :
              Plain(clause) /\ NamesOf(clause) \subseteq Range(names)

\* The names of the inputs of the call of the binding with BindingId(id)
InputsOf(P, X, id) ==
    LET site == BindingCall(X, id)
        spec == P.term_spec[site.term]
    IN  IF site.kind = "Constructor" THEN Range(spec.args) ELSE {spec.ret}

\* The names the requires and matches clauses of the called term use
Required(P, X, id) ==
    LET spec == P.term_spec[BindingCall(X, id).term]
    IN  UNION {NamesOf(clause) : clause \in Range(spec.requires \o spec.matches)}

RolesStep ==
    /\ Ok(builder') => RolesByKind(builder', prog, expansion)
    /\ (/\ pc = "bindings" /\ Ok(builder)
        /\ expansion.bindings[idx].k \in {"Constructor", "Extractor"}
        /\ ~has_value(builder, idx - 1)
        /\ PlainCall(prog, expansion, idx - 1))
       => IF Required(prog, expansion, idx - 1)
                \subseteq InputsOf(prog, expansion, idx - 1)
          THEN /\ Ok(builder')
               /\ Len(builder'.glog) = Len(builder.glog) + 1
               /\ builder'.glog[Len(builder'.glog)].term
                    = expansion.bindings[idx].term
               /\ builder'.glog[Len(builder'.glog)].kind
                    = expansion.bindings[idx].k
          ELSE builder'.err = "undefined variable"

C24_OutputNamed ==
    /\ pc = "error" /\ builder.err = "undefined variable"
    /\ expansion.bindings[idx].k = "Extractor"
    /\ \E clause \in Range(prog.term_spec[expansion.bindings[idx].term].requires) :
          NamesOf(clause) \cap
              Range(prog.term_spec[expansion.bindings[idx].term].args) # {}

(***************************************************************************)
(* C25: when the solver answers sat to the verification check, the runner  *)
(* prints the counterexample model, a line with the value of each state    *)
(* variable and a line with the values of the arguments and the result of  *)
(* each recorded call under the model, and then returns the error          *)
(* "verification failed".  No report verdict is recorded for it: a verdict *)
(* is inapplicable, success or unknown.                                    *)
(***************************************************************************)
\* The recorded calls print_model has a line for
PrintedCalls(b, P) ==
    SelectSeq(b.calls, LAMBDA c : ~(is_enum_variant(P, c.term) /\ c.args = <<>>))

\* The value of a scalar is the constant the model gives its expression
ScalarUnder(line_value, value, model) ==
    value.k = "Scalar" =>
        line_value = [k |-> "Const", c |-> model[value.x]]

ModelPrinted ==
    /\ run.printed.err = ""
    /\ {line.name : line \in run.printed.state} = DOMAIN builder.state
    /\ \A line \in run.printed.state :
          ScalarUnder(line.value, builder.state[line.name], run.model)
    /\ Len(run.printed.calls) = Len(PrintedCalls(builder, prog))
    /\ \A i \in 1..Len(run.printed.calls) :
          LET line == run.printed.calls[i]
              site == PrintedCalls(builder, prog)[i]
          IN  /\ line.term = site.term
              /\ Len(line.args) = Len(site.args)
              /\ \A j \in 1..Len(site.args) :
                    ScalarUnder(line.args[j], site.args[j], run.model)
              /\ ScalarUnder(line.ret, site.ret, run.model)

VerdictsOfReports ==
    /\ run.verdict \in {"", "inapplicable", "success", "unknown"}
    /\ rpc = "reported" <=> run.verdict # ""
    /\ (Len(smt.answers) = 2 /\ smt.answers[2] = "sat") => run.verdict = ""

C25_FailureReported ==
    /\ VerdictsOfReports
    /\ (/\ Len(smt.answers) = 2 /\ smt.answers[2] = "sat"
        /\ rpc \in {"reported", "failed"})
       => /\ run.err = "verification failed"
          /\ ModelPrinted

\* The solver answered sat with a model in which an Int expression is
\* negative: the runner has returned the error of reading the model, and
\* has printed nothing.
C25_Witness ==
    /\ Len(smt.answers) = 2 /\ smt.answers[2] = "sat"
    /\ rpc = "failed"
    /\ run.err = "model"
    /\ run.printed = NothingPrinted

\* A failure whose model is read: the model is printed, with the line of a
\* call, and the run ends with "verification failed".
C25_FailurePrinted ==
    /\ rpc = "failed" /\ run.err = "verification failed"
    /\ ModelPrinted
    /\ run.printed.calls # <<>>

\* What holds of every verification failure: no verdict, and either the
\* model printed and "verification failed" or the error of reading the model.
C25_FailureIsNoVerdict ==
    /\ VerdictsOfReports
    /\ (/\ Len(smt.answers) = 2 /\ smt.answers[2] = "sat"
        /\ rpc \in {"reported", "failed"})
       => \/ run.err = "verification failed" /\ ModelPrinted
          \/ run.err = "model" /\ run.printed = NothingPrinted

(***************************************************************************)
(* C26: should_verify decides by the last filter that matches.  When no    *)
(* predicate fails to evaluate, the expansion is verified if and only if   *)
(* the predicate of at least one filter holds of it and the last such      *)
(* filter, in the order the filters were added, is an include; an          *)
(* expansion no filter matches, as with no filter at all, is skipped.      *)
(* With the options' defaults main adds an include of FirstRuleNamed and   *)
(* then an exclude of the tag TODO, so that an expansion tagged TODO is    *)
(* skipped even when its first rule is named.                              *)
(***************************************************************************)
\* The positions of the filters whose predicate holds of the expansion
MatchingFilters(filters, e) ==
    {i \in 1..Len(filters) : eval_predicate(filters[i].predicate, e) = "true"}

Evaluates(filters, e) ==
    \A i \in 1..Len(filters) : eval_predicate(filters[i].predicate, e) # "err"

Last(S) == CHOOSE i \in S : \A j \in S : j <= i

LastMatchDecides(filters, e, verdict) ==
    Evaluates(filters, e) =>
        /\ verdict \in {"true", "false"}
        /\ verdict = "true" <=>
              /\ MatchingFilters(filters, e) # {}
              /\ filters[Last(MatchingFilters(filters, e))].include

C26_IncludeLast ==
    /\ calc.op = "should_verify" /\ calc.out = <<"true">>
    /\ Len(calc.args[1]) = 3
    /\ \E i, j \in MatchingFilters(calc.args[1], calc.args[2]) :
          i < j /\ ~calc.args[1][i].include /\ calc.args[1][j].include

(***************************************************************************)
(* C27: the constants Solver::encode declares, one per expression and      *)
(* those of the encodings of the intrinsics, have pairwise distinct names, *)
(* so that no name is declared twice; in particular when two different     *)
(* intrinsics are applied to one operand, whose index is the suffix of the *)
(* names of their constants.                                               *)
(***************************************************************************)
Distinct(names) ==
    \A i, j \in 1..Len(names) : names[i] = names[j] => i = j

C27_DistinctNames ==
    (calc.op = "encode" /\ calc.out # <<>>) =>
        /\ Distinct(calc.out[1])
        /\ calc.out[2]

\* The intrinsics of a table that have the operand x
IntrinsicsOf(table, x) ==
    {i \in 1..Len(table.exprs) :
        table.exprs[i].op # "Variable" /\ table.exprs[i].args[1] = x}

\* Clz and Rev of one operand of 8 bits have been encoded: x1 and x2 with
\* the index of the operand are declared by both.
C27_Witness ==
    /\ calc.op = "encode" /\ calc.out # <<>>
    /\ calc.args[1] = 8
    /\ \E x \in 0..(Len(calc.args[2].exprs) - 1) :
          /\ Cardinality(IntrinsicsOf(calc.args[2], x)) = 2
          /\ \E i, j \in 1..Len(calc.out[1]) :
                i # j /\ calc.out[1][i] = <<"x1", x>> /\ calc.out[1][j] = <<"x1", x>>
    /\ ~calc.out[2]

\* What holds of the names: they are distinct when no two intrinsics have
\* one operand, and when the width is 1.
C27_DistinctPerOperand ==
    (calc.op = "encode" /\ calc.out # <<>>) =>
        ((\/ calc.args[1] = 1
          \/ \A x \in 0..(Len(calc.args[2].exprs) - 1) :
                Cardinality(IntrinsicsOf(calc.args[2], x)) <= 1)
         => Distinct(calc.out[1]) /\ calc.out[2])

(***************************************************************************)
(* C28: in every state of the builder's table of expressions each operand  *)
(* of the expression with index i is an index below i.  Solver::encode,    *)
(* which declares and defines the expressions in increasing index order,   *)
(* therefore never sends a definition that refers to a constant it has not *)
(* declared yet.                                                           *)
(***************************************************************************)
OperandsBelow(b) ==
    \A i \in 1..Len(b.exprs) : \A k \in 1..Len(b.exprs[i].args) :
        b.exprs[i].args[k] >= 0 /\ b.exprs[i].args[k] < i - 1

DeclaredBeforeUse(cmds) ==
    \A p \in 1..Len(cmds) :
        cmds[p].k = "assert" =>
            \A x \in {cmds[p].x} \cup Range(cmds[p].args) :
                \E q \in 1..(p - 1) : cmds[q] = DeclareExpr(x)

C28_OperandsPrecede ==
    /\ OperandsBelow(builder)
    /\ DeclaredBeforeUse(encode_from(builder, 1))
    /\ Len(SelectSeq(encode_from(builder, 1), LAMBDA c : c.k = "declare"))
          = Len(builder.exprs)

\* The conditions are built with an expression of two operands one of
\* which has an operand itself, and the encoding defines it.
C28_Witness ==
    /\ pc = "done"
    /\ \E i \in 1..Len(builder.exprs) :
          /\ Len(builder.exprs[i].args) = 2
          /\ \E k \in 1..2 :
                builder.exprs[builder.exprs[i].args[k] + 1].args # <<>>
          /\ \E p \in 1..Len(encode_from(builder, 1)) :
                encode_from(builder, 1)[p]
                    = AssignExpr(i - 1, builder.exprs[i].args)

(***************************************************************************)
(* C29: each check of the solver leaves the assertion stack as it found    *)
(* it.  Whenever check_assumptions_feasibility or                          *)
(* check_verification_condition has returned, with any verdict or with an  *)
(* error of reading the model, every push has been matched by a pop: the   *)
(* assumptions of the applicability check are not in force during the      *)
(* verification check, and only the base level that encode filled remains. *)
(***************************************************************************)
Sent(command) == Len(SelectSeq(smt.sent, LAMBDA c : c = command))

\* No check is under way: the runner is between the checks or has returned
BetweenChecks == rpc \in {"encode", "f_push", "f_match", "v_push", "v_match",
                          "reported", "failed"}

StackAsFound ==
    /\ Len(smt.frames) = 1
    /\ smt.frames[1] = <<>>
    /\ Sent("push") = Sent("pop")

\* During the verification check its frame holds the verification
\* condition only, over the base level
OnlyVerificationCondition ==
    rpc \in {"v_check", "v_model", "v_pop"} =>
        /\ Len(smt.frames) = 2
        /\ smt.frames[1] = <<>>
        /\ smt.frames[2] = <<verification_condition(builder)>>

C29_StackRestored ==
    /\ BetweenChecks => StackAsFound
    /\ OnlyVerificationCondition

\* The verification check has returned the error of reading the model,
\* after two pushes and one pop: its frame, with the verification
\* condition, is still on the stack.
C29_Witness ==
    /\ rpc = "failed" /\ run.err = "model"
    /\ Sent("push") = 2 /\ Sent("pop") = 1
    /\ Len(smt.frames) = 2
    /\ smt.frames[2] = <<verification_condition(builder)>>

\* What holds: the stack is as found whenever a check has returned a
\* verdict, and the frame of the applicability check is popped before the
\* verification check pushes its own.
C29_RestoredOnVerdict ==
    /\ (BetweenChecks /\ ~(rpc = "failed" /\ run.err = "model")) => StackAsFound
    /\ OnlyVerificationCondition

\* Both checks have returned a verdict and the stack is as encode left it.
C29_BothReturned ==
    /\ rpc = "v_match" /\ Len(smt.answers) = 2
    /\ Sent("push") = 2 /\ Sent("pop") = 2
    /\ StackAsFound

(***************************************************************************)
(* C30: when run returns Ok, the expansions list of its report holds       *)
(* exactly the expansions should_verify is true of, each once, in strictly *)
(* increasing order of id, the id of an expansion being its index in the   *)
(* whole output of the expander, so that the skipped expansions leave gaps *)
(* in the ids.  The list is the same whatever the number of threads and    *)
(* whatever the order the closures run and finish in: each entry is what   *)
(* the configuration determines for its expansion.                         *)
(***************************************************************************)
\* The verdicts of the instantiations of an expansion, in order, as the
\* configuration determines them
RECURSIVE VerdictsFrom(_, _, _)
VerdictsFrom(c, e, j) ==
    IF j > Len(e.solutions) THEN <<>>
    ELSE (IF after_status(e.solutions[j].status, c.skip_solver) = "verify"
          THEN <<instantiation_result(e.solutions[j]).run.verdict>>
          ELSE <<>>)
         \o VerdictsFrom(c, e, j + 1)

ReportOfRun ==
    /\ \A k \in 1..Len(exec.report) :
          /\ exec.report[k].id \in 0..(Len(cfg.expansions) - 1)
          /\ should_verify(cfg.filters, cfg.expansions[exec.report[k].id + 1])
                = "true"
          /\ exec.report[k].type_instantiations
                = VerdictsFrom(cfg, cfg.expansions[exec.report[k].id + 1], 1)
    /\ \A i \in 1..Len(cfg.expansions) :
          should_verify(cfg.filters, cfg.expansions[i]) = "true"
              => \E k \in 1..Len(exec.report) : exec.report[k].id = i - 1
    /\ \A k \in 1..(Len(exec.report) - 1) :
          exec.report[k].id < exec.report[k + 1].id

C30_ReportInIdOrder ==
    (exec.pc = "returned" /\ exec.result = "Ok") => ReportOfRun

\* run has returned Ok with a report of two expansions, collected in
\* either order, the first with the verdicts of its instantiations.
C30_Witness ==
    /\ exec.pc = "returned" /\ exec.result = "Ok"
    /\ Len(exec.report) = 2
    /\ exec.report[1].id < exec.report[2].id
    /\ exec.report[1].type_instantiations # <<>>

\* A report with a gap: an expansion was skipped and a later one verified.
C30_Gap ==
    /\ exec.pc = "returned" /\ exec.result = "Ok"
    /\ Len(exec.report) = 1 /\ exec.report[1].id = 1
====
